---------------------------- MODULE Spec2Model ----------------------------
(***************************************************************************)
(* Homework submission flow: the assignment page (AssignmentTaker), the    *)
(* homework utilities it calls and the mock store gateway behind them.     *)
(*                                                                         *)
(* Modelling level.  A gateway call is one query-builder chain of the      *)
(* source ending in its terminal operation (single, maybeSingle, insert,   *)
(* update, upsert).  What a call does to the store and what data it        *)
(* returns when it succeeds is what mockDatabase.ts does.  When a call     *)
(* resolves, and whether it succeeds, is the network's choice: the mock    *)
(* declares simulateNetworkDelay and simulateNetworkFailure for it, and    *)
(* the utilities read an `error` field off every result.  A chain is taken  *)
(* to reach its terminal operation whatever filters it carries; the mock's *)
(* builder offers one eq per chain where the session lookup and the        *)
(* completion update apply two, which at run time is the outcome "throw"   *)
(* of those two calls.  A text is a sequence of one-character strings.     *)
(***************************************************************************)
EXTENDS Integers, Sequences, FiniteSets, TLC

\* ------------------------------------------------------------------ bounds
MaxLen == 3      \* longest text the grader is tried on
MaxCalls == 4    \* handler invocations that reach the gateway, per run
MaxMounts == 2   \* times the page component is mounted, per run
MaxSelected == 3 \* longest list of selected options the grader is tried on
MaxApiCalls == 3 \* calls of a utility by a caller other than the page, per run

\* ------------------------------------------------------------------- values
Null == "null"          \* a missing message
None == <<>>            \* a missing value: null or undefined
Some(x) == <<x>>

\* A JS value with its typeof
JsString(s) == [type |-> "string", value |-> s]
JsArray(a) == [type |-> "array", value |-> a]
JsUndefined == [type |-> "undefined", value |-> <<>>]
JsNull == [type |-> "null", value |-> <<>>]
JsNumber(n) == [type |-> "number", value |-> n]
JsBoolean(b) == [type |-> "boolean", value |-> b]
JsObject(o) == [type |-> "object", value |-> o]

\* ------------------------------------------------------------------- texts

UpperCase == <<"A","B","C","D","E","F","G","H","I","J","K","L","M",
               "N","O","P","Q","R","S","T","U","V","W","X","Y","Z">>
LowerCase == <<"a","b","c","d","e","f","g","h","i","j","k","l","m",
               "n","o","p","q","r","s","t","u","v","w","x","y","z">>

WhiteSpace == {" ", "\t", "\n"}

\* String.prototype.toLowerCase, one character
lowerChar(ch) ==
    IF \E i \in 1..26 : UpperCase[i] = ch
    THEN LowerCase[CHOOSE i \in 1..26 : UpperCase[i] = ch]
    ELSE ch

\* String.prototype.toLowerCase
toLowerCase(s) == [i \in 1..Len(s) |-> lowerChar(s[i])]

RECURSIVE trimStart(_)
trimStart(s) ==
    IF s # <<>> /\ Head(s) \in WhiteSpace THEN trimStart(Tail(s)) ELSE s

RECURSIVE trimEnd(_)
trimEnd(s) ==
    IF s # <<>> /\ s[Len(s)] \in WhiteSpace
    THEN trimEnd(SubSeq(s, 1, Len(s) - 1))
    ELSE s

\* String.prototype.trim
trim(s) == trimEnd(trimStart(s))

\* typeof x === 'string'
IsText(x) == x.type = "string"

\* ------------------------------------------------------------ auto-grader
\* A mutation of the multiple-choice comparison: the case folding is lost.
gradeMultipleChoiceCaseSensitive(responseText, correct_answer, points) ==
    LET correctAnswer == IF IsText(correct_answer) THEN correct_answer.value ELSE <<>>
        isCorrect == trim(responseText) = trim(correctAnswer)
    IN  [is_correct |-> isCorrect,
         points_earned |-> IF isCorrect THEN points ELSE 0]

\* saveHomeworkResponse, the multiple-choice branch of the auto-grading
gradeMultipleChoice(responseText, correct_answer, points) ==
    LET correctAnswer == IF IsText(correct_answer) THEN correct_answer.value ELSE <<>>
        isCorrect == toLowerCase(trim(responseText)) = toLowerCase(trim(correctAnswer))
    IN  [is_correct |-> isCorrect,
         points_earned |-> IF isCorrect THEN points ELSE 0]

\* --------------------------------------------------------- mock assignment
WaterAndSunlight ==
    <<"W","a","t","e","r"," ","a","n","d"," ","s","u","n","l","i","g","h","t">>
OnlyWater == <<"O","n","l","y"," ","w","a","t","e","r">>
Fish == <<"F","i","s","h">>
Tree == <<"T","r","e","e">>
Dog == <<"D","o","g">>
Flower == <<"F","l","o","w","e","r">>
TreeJson == <<"[","\"","T","r","e","e","\"","]">>    \* JSON.stringify(["Tree"])

\* mockAssignment.questions
mockQuestions ==
    << [id |-> "q1-uuid-mock", question_type |-> "multiple-choice",
        correct_answer |-> JsString(WaterAndSunlight), points |-> 5],
       [id |-> "q2-uuid-mock", question_type |-> "short-answer",
        correct_answer |-> JsString(Fish), points |-> 5],
       [id |-> "q3-uuid-mock", question_type |-> "tickbox",
        correct_answer |-> JsArray(<<JsString(Tree), JsString(Dog),
                                     JsString(Flower)>>),
        points |-> 10] >>

mockAssignmentId == 1

mockUserId == "student-user-123"

mockSession ==
    [id |-> "session-123-uuid", student_id |-> mockUserId, assignment_id |-> 1,
     current_question_index |-> 0, is_completed |-> FALSE]

\* The texts the learner enters: two of the options of the multiple-choice
\* question, two values of the short-answer input (the second clears it).
OptionTexts == {WaterAndSunlight, OnlyWater}
TypedTexts == {Fish, <<>>}

\* three of the options of the tickbox question
TickOptions == {Tree, Dog, Flower}

\* The ids the route /student/assignment/[id] is opened with.
RouteIds == {<<"1">>, <<"2">>}

Digits == <<"0","1","2","3","4","5","6","7","8","9">>
IsDigit(ch) == \E i \in 1..10 : Digits[i] = ch
DigitValue(ch) == (CHOOSE i \in 1..10 : Digits[i] = ch) - 1

NaN == [nan |-> TRUE, value |-> 0]
Num(n) == [nan |-> FALSE, value |-> n]
\* A mutation of the test: no value counts as NaN.
isNaNNever(x) == FALSE

isNaN(x) == x.nan

RECURSIVE digitsPrefixValue(_, _)
digitsPrefixValue(s, acc) ==
    IF s # <<>> /\ IsDigit(Head(s))
    THEN digitsPrefixValue(Tail(s), 10 * acc + DigitValue(Head(s)))
    ELSE acc

\* parseInt(assignmentId, 10): leading white space, a sign, then the digits
parseInt(s) ==
    LET t == trimStart(s)
        neg == t # <<>> /\ Head(t) = "-"
        u == IF t # <<>> /\ Head(t) \in {"-", "+"} THEN Tail(t) ELSE t
    IN  IF u = <<>> \/ ~IsDigit(Head(u)) THEN NaN
        ELSE IF neg THEN Num(0 - digitsPrefixValue(u, 0))
        ELSE Num(digitsPrefixValue(u, 0))

\* ----------------------------------------------------------- JS objects
\* An object is the sequence of its own properties, [key, value] each.
objHas(obj, k) == \E i \in 1..Len(obj) : obj[i].key = k

\* obj[k], where obj has the property k
objGet(obj, k) == obj[CHOOSE i \in 1..Len(obj) : obj[i].key = k].value

\* A mutation of the property assignment: a second write of a key is kept
\* beside the first instead of replacing it.
objSetAppendOnly(obj, k, v) == Append(obj, [key |-> k, value |-> v])

\* obj[k] = v, also { ...obj, [k]: v }
objSet(obj, k, v) ==
    IF objHas(obj, k)
    THEN [i \in 1..Len(obj) |->
            IF obj[i].key = k THEN [key |-> k, value |-> v] ELSE obj[i]]
    ELSE Append(obj, [key |-> k, value |-> v])

objCount(obj, k) == Cardinality({i \in 1..Len(obj) : obj[i].key = k})

\* ----------------------------------------------------------------- JSON
\* JSON.parse and JSON.stringify on texts without a fraction, an exponent, a
\* control character other than tab, line feed and carriage return, or one of
\* the escapes \b, \f and \u: those are not decoded.
JsonWhiteSpace == {" ", "\t", "\n", "\r"}

\* the character at position i, "" past the end
charAt(s, i) == IF i \in 1..Len(s) THEN s[i] ELSE ""

RECURSIVE skipWs(_, _)
skipWs(s, i) ==
    IF charAt(s, i) \in JsonWhiteSpace THEN skipWs(s, i + 1) ELSE i

RECURSIVE digitsEnd(_, _)
digitsEnd(s, i) == IF IsDigit(charAt(s, i)) THEN digitsEnd(s, i + 1) ELSE i

startsAt(s, i, word) ==
    /\ i + Len(word) - 1 <= Len(s)
    /\ SubSeq(s, i, i + Len(word) - 1) = word

\* the result of a parsing step: a value and the position after it, or none
parsed(v, i) == [ok |-> TRUE, value |-> v, next |-> i]
SyntaxError(i) == [ok |-> FALSE, value |-> JsUndefined, next |-> i]

RECURSIVE scanString(_, _, _)

\* the rest of a string literal from position j on, text the characters
\* decoded before j
scanString(s, j, text) ==
    LET ch == charAt(s, j)
        e == charAt(s, j + 1)
    IN  CASE ch = "" -> SyntaxError(j)
          [] ch = "\"" -> parsed(JsString(text), j + 1)
          [] ch = "\\" ->
                ( CASE e \in {"\"", "\\", "/"} -> scanString(s, j + 2, Append(text, e))
                    [] e = "n" -> scanString(s, j + 2, Append(text, "\n"))
                    [] e = "t" -> scanString(s, j + 2, Append(text, "\t"))
                    [] e = "r" -> scanString(s, j + 2, Append(text, "\r"))
                    [] OTHER -> SyntaxError(j + 1) )
          [] ch \in {"\t", "\n", "\r"} -> SyntaxError(j)
          [] OTHER -> scanString(s, j + 1, Append(text, ch))

\* a string literal whose opening quote is at position i
parseString(s, i) == scanString(s, i + 1, <<>>)

\* an integer literal at position i
parseNumber(s, i) ==
    LET k == IF charAt(s, i) = "-" THEN i + 1 ELSE i IN
    IF ~IsDigit(charAt(s, k)) THEN SyntaxError(i)
    ELSE IF s[k] = "0" THEN parsed(JsNumber(0), k + 1)
    ELSE LET n == digitsPrefixValue(SubSeq(s, k, Len(s)), 0) IN
         parsed(JsNumber(IF k = i THEN n ELSE 0 - n), digitsEnd(s, k))

RECURSIVE parseJson(_, _, _, _)

\* The recursive descent of JSON.parse from position i on.  what = "value":
\* the value that begins at i.  what = "elements": the rest of an array, acc
\* the elements before i.  what = "members": the rest of an object, acc the
\* members before i.
parseJson(what, s, i, acc) ==
    LET ch == charAt(s, i) IN
    CASE what = "value" ->
            ( CASE ch = "\"" -> parseString(s, i)
                [] ch = "[" ->
                      LET j == skipWs(s, i + 1) IN
                      IF charAt(s, j) = "]" THEN parsed(JsArray(<<>>), j + 1)
                      ELSE parseJson("elements", s, j, <<>>)
                [] ch = "{" ->
                      LET j == skipWs(s, i + 1) IN
                      IF charAt(s, j) = "}" THEN parsed(JsObject(<<>>), j + 1)
                      ELSE parseJson("members", s, j, <<>>)
                [] ch = "-" \/ IsDigit(ch) -> parseNumber(s, i)
                [] startsAt(s, i, <<"t","r","u","e">>) ->
                      parsed(JsBoolean(TRUE), i + 4)
                [] startsAt(s, i, <<"f","a","l","s","e">>) ->
                      parsed(JsBoolean(FALSE), i + 5)
                [] startsAt(s, i, <<"n","u","l","l">>) -> parsed(JsNull, i + 4)
                [] OTHER -> SyntaxError(i) )
      [] what = "elements" ->
            LET v == parseJson("value", s, i, <<>>) IN
            IF ~v.ok THEN v
            ELSE LET j == skipWs(s, v.next)
                     elements == Append(acc, v.value)
                 IN  CASE charAt(s, j) = "," ->
                             parseJson("elements", s, skipWs(s, j + 1), elements)
                       [] charAt(s, j) = "]" -> parsed(JsArray(elements), j + 1)
                       [] OTHER -> SyntaxError(j)
      [] what = "members" ->
            LET k == IF ch = "\"" THEN parseString(s, i) ELSE SyntaxError(i) IN
            IF ~k.ok THEN k
            ELSE LET c == skipWs(s, k.next) IN
                 IF charAt(s, c) # ":" THEN SyntaxError(c)
                 ELSE LET v == parseJson("value", s, skipWs(s, c + 1), <<>>) IN
                      IF ~v.ok THEN v
                      ELSE LET j == skipWs(s, v.next)
                               members == objSet(acc, k.value.value, v.value)
                           IN  CASE charAt(s, j) = "," ->
                                       parseJson("members", s, skipWs(s, j + 1),
                                                 members)
                                 [] charAt(s, j) = "}" ->
                                       parsed(JsObject(members), j + 1)
                                 [] OTHER -> SyntaxError(j)

\* JSON.parse(text): ok and the value, or not ok where it throws SyntaxError
JSONparse(text) ==
    LET v == parseJson("value", text, skipWs(text, 1), <<>>) IN
    IF v.ok /\ skipWs(text, v.next) = Len(text) + 1 THEN v
    ELSE SyntaxError(v.next)

\* a character as JSON.stringify writes it inside a string literal
quoteChar(ch) ==
    CASE ch = "\"" -> <<"\\", "\"">>
      [] ch = "\\" -> <<"\\", "\\">>
      [] ch = "\n" -> <<"\\", "n">>
      [] ch = "\t" -> <<"\\", "t">>
      [] ch = "\r" -> <<"\\", "r">>
      [] OTHER -> <<ch>>

RECURSIVE quoteChars(_)
quoteChars(text) ==
    IF text = <<>> THEN <<>>
    ELSE quoteChars(SubSeq(text, 1, Len(text) - 1)) \o quoteChar(text[Len(text)])

\* JSON.stringify(text), text a string
quote(text) == <<"\"">> \o quoteChars(text) \o <<"\"">>

RECURSIVE stringifyElements(_)
stringifyElements(a) ==
    IF a = <<>> THEN <<>>
    ELSE (IF Len(a) > 1 THEN stringifyElements(SubSeq(a, 1, Len(a) - 1)) \o <<",">>
          ELSE <<>>)
         \o quote(a[Len(a)])

\* JSON.stringify(a), a an array of strings
JSONstringify(a) == <<"[">> \o stringifyElements(a) \o <<"]">>

\* ------------------------------------------------------ tickbox grading
\* new Set(x): its elements, or not ok where x is not iterable (TypeError)
newSet(x) ==
    CASE x.type = "array" -> [ok |-> TRUE, elements |-> x.value]
      [] x.type = "string" ->
            [ok |-> TRUE,
             elements |-> [i \in 1..Len(x.value) |-> JsString(<<x.value[i]>>)]]
      [] x.type \in {"null", "undefined"} -> [ok |-> TRUE, elements |-> <<>>]
      [] OTHER -> [ok |-> FALSE, elements |-> <<>>]

\* the equality of Set.prototype.has: primitives by value, objects by identity
sameValueZero(x, y) ==
    /\ x.type = y.type
    /\ x.type \in {"string", "number", "boolean", "null", "undefined"}
    /\ x.value = y.value

setHas(elements, x) == \E n \in 1..Len(elements) : sameValueZero(elements[n], x)

\* x.every is a function
isArray(x) == x.type = "array"

\* saveHomeworkResponse: correctAnswers of the tickbox branch
correctAnswersOf(correct_answer) ==
    CASE correct_answer.type = "array" -> parsed(correct_answer, 0)
      [] correct_answer.type = "string" ->
            JSONparse(IF correct_answer.value = <<>> THEN <<"[", "]">>
                      ELSE correct_answer.value)
      [] OTHER -> parsed(JsArray(<<>>), 0)

\* A statement of the try block of the tickbox branch throws, studentAnswers
\* and correctAnswers being what the two parses gave.
tickboxThrows(studentAnswers, correctAnswers) ==
    \/ ~studentAnswers.ok
    \/ ~correctAnswers.ok
    \/ ~newSet(studentAnswers.value).ok
    \/ ~newSet(correctAnswers.value).ok
    \/ ~isArray(correctAnswers.value)
    \/ ~isArray(studentAnswers.value)

\* hasAllCorrect, where nothing throws
hasAllCorrect(studentAnswers, correctAnswers) ==
    \A n \in 1..Len(correctAnswers.value.value) :
        setHas(newSet(studentAnswers.value).elements, correctAnswers.value.value[n])

\* hasNoIncorrect, where nothing throws
hasNoIncorrect(studentAnswers, correctAnswers) ==
    \A n \in 1..Len(studentAnswers.value.value) :
        setHas(newSet(correctAnswers.value).elements, studentAnswers.value.value[n])

\* A mutation of the try block: the selection need only hold every correct
\* answer.
tryGradeSuperset(studentAnswers, correctAnswers, points) ==
    LET isCorrect == /\ ~tickboxThrows(studentAnswers, correctAnswers)
                     /\ hasAllCorrect(studentAnswers, correctAnswers)
    IN  [is_correct |-> isCorrect,
         points_earned |-> IF isCorrect THEN points ELSE 0,
         escaped |-> FALSE]

\* A mutation of the try block: it has no catch.
tryGradeUnguarded(studentAnswers, correctAnswers, points) ==
    LET isCorrect == /\ ~tickboxThrows(studentAnswers, correctAnswers)
                     /\ hasAllCorrect(studentAnswers, correctAnswers)
                     /\ hasNoIncorrect(studentAnswers, correctAnswers)
    IN  [is_correct |-> isCorrect,
         points_earned |-> IF isCorrect THEN points ELSE 0,
         escaped |-> tickboxThrows(studentAnswers, correctAnswers)]

\* the try block and its catch, after the two parses; escaped says an
\* exception leaves the branch
tryGrade(studentAnswers, correctAnswers, points) ==
    LET isCorrect == /\ ~tickboxThrows(studentAnswers, correctAnswers)
                     /\ hasAllCorrect(studentAnswers, correctAnswers)
                     /\ hasNoIncorrect(studentAnswers, correctAnswers)
    IN  [is_correct |-> isCorrect,
         points_earned |-> IF isCorrect THEN points ELSE 0,
         escaped |-> FALSE]

\* saveHomeworkResponse, the tickbox branch of the auto-grading
gradeTickbox(responseText, correct_answer, points) ==
    tryGrade(JSONparse(responseText), correctAnswersOf(correct_answer), points)

\* ----------------------------------------------------------------- state
VARIABLES
    mockResponsesStorage,  \* the mock store of responses: entries of a JS object
    storedSession,         \* the session row the mock store answers lookups with
    submissions,           \* the submission records the gateway was given, by
                           \* the conflict key of the upsert; the mock
                           \* acknowledges them and keeps no copy
    mount,                 \* which mount of the page component is the live one
    routeId,               \* router.query.id of the live mount
    assignment,            \* useState: the assignment is loaded
    session,               \* useState: Some(session), or None
    currentQuestion,       \* useState
    answers,               \* useState: entries of a JS object
    isSubmitting,          \* useState
    isSubmitted,           \* useState
    loading,               \* useState
    error,                 \* useState: the message shown, or Null
    calls,                 \* the handler invocations, in the order they began
    ackedProgress,         \* Some(the last progress write acknowledged), or None
    gradeIn,               \* the grader's arguments
    gradeOut,              \* Some(the grader's result), or None
    image                  \* a ReliableImage: its src prop, its state hooks,
                           \* and what handling the last event did

storeVars == <<mockResponsesStorage, storedSession, submissions>>
clientVars == <<mount, routeId, assignment, session, currentQuestion, answers,
                isSubmitting, isSubmitted, loading, error>>
gradeVars == <<gradeIn, gradeOut>>
vars == <<mockResponsesStorage, storedSession, submissions, mount, routeId, assignment, session,
          currentQuestion, answers, isSubmitting, isSubmitted, loading, error,
          calls, ackedProgress, gradeIn, gradeOut, image>>

\* ------------------------------------------------------------ the gateway
\* How a gateway call ends: its result carries no error, its result carries
\* an error, or the call throws (simulateNetworkFailure).
Outcomes == {"ok", "error", "throw"}

\* from('homework_sessions').select().eq().eq().maybeSingle(): the data
maybeSingleSession(row, student_id, assignment_id) == row

\* from('homework_sessions').insert(data).select().single(): the data
insertSession(data) ==
    [id |-> mockSession.id,
     student_id |-> data.student_id,
     assignment_id |-> data.assignment_id,
     current_question_index |-> data.current_question_index,
     is_completed |-> data.is_completed]

\* from('homework_sessions').update(data).eq(...): the row after it
updateSession(row, data) == row

\* A mutation of the payload: the completion fields are sent with every
\* progress write.
updateDataWithFlag(currentQuestionIndex, isCompleted) ==
    [current_question_index |-> currentQuestionIndex,
     last_activity |-> "now",
     is_completed |-> isCompleted,
     completed_at |-> IF isCompleted THEN "now" ELSE "null"]

\* updateData of updateHomeworkSessionProgress
updateData(currentQuestionIndex, isCompleted) ==
    IF isCompleted
    THEN [current_question_index |-> currentQuestionIndex,
          last_activity |-> "now",
          is_completed |-> TRUE,
          completed_at |-> "now"]
    ELSE [current_question_index |-> currentQuestionIndex,
          last_activity |-> "now"]

\* A mutation of the payloads: the touch sets the index and the flag anew.
sessionWriteResetting(call, op) ==
    CASE op = "touch" -> [last_activity |-> "now",
                          current_question_index |-> 0,
                          is_completed |-> FALSE]
      [] op = "complete" -> [is_completed |-> TRUE, completed_at |-> "now"]
      [] op = "finalize" -> updateData(call.index, TRUE)
      [] OTHER -> updateData(call.index, call.isCompleted)

\* the data of the update of homework_sessions that is the gateway call `op`
\* of the call
sessionWrite(call, op) ==
    CASE op = "touch" -> [last_activity |-> "now"]
      [] op = "complete" -> [is_completed |-> TRUE, completed_at |-> "now"]
      [] op = "finalize" -> updateData(call.index, TRUE)
      [] OTHER -> updateData(call.index, call.isCompleted)

\* from('homework_responses').upsert(data, { onConflict }): the store after it
upsertResponse(storage, data) ==
    objSet(storage, data.question_id, data.response_text)

\* A mutation of the write of the submission record: a plain insert.
insertSubmission(records, data) ==
    Append(records, [key |-> <<data.student_id, data.assignment_id>>,
                     value |-> data])

\* from('submissions').upsert(data, { onConflict: 'student_id,assignment_id' }):
\* the records the gateway was given, after it
upsertSubmission(records, data) ==
    objSet(records, <<data.student_id, data.assignment_id>>, data)

\* getStudentHomeworkResponsesMap: { ...mockResponsesStorage }, every value
\* the string that was stored
getStudentHomeworkResponsesMap(storage) ==
    [i \in 1..Len(storage) |->
        [key |-> storage[i].key, value |-> JsString(storage[i].value)]]

\* --------------------------------------------------------------- calls
\* One record per running or finished invocation of a handler that reaches
\* the gateway.  pc names the gateway call it awaits.  log lists the gateway
\* calls it has made, each with how it ended.
newCall(kind, pc) ==
    [kind |-> kind, mount |-> mount, pc |-> pc, route |-> routeId,
     student_id |-> mockUserId, assignment_id |-> mockAssignmentId,
     question_id |-> "", response_text |-> <<>>, is_correct |-> "undefined",
     points_earned |-> 0, index |-> 0, isCompleted |-> FALSE,
     result |-> "pending", sessionData |-> None,
     log |-> <<[op |-> pc, outcome |-> "pending"]>>,
     pendingAtIssue |-> {}, ackedAtIssue |-> None]

\* the call goes on to await the gateway call `op`
issue(call, op) ==
    [call EXCEPT !.pc = op, !.log = Append(@, [op |-> op, outcome |-> "pending"])]

\* What the log keeps of an outcome: the caller tells an error result from a
\* throw after the lookup, the touch and the completion update only.
logged(op, o) ==
    IF o = "ok" \/ op \in {"lookup", "touch", "complete"} THEN o ELSE "failed"

\* the gateway call the call awaits ends with outcome o
settle(call, o) ==
    [call EXCEPT !.log = [@ EXCEPT ![Len(@)].outcome = logged(call.pc, o)]]

finish(call, result) == [call EXCEPT !.pc = "done", !.result = result]

\* the call was made by the mount of the page that is the live one; mount
\* is 0 in a call that was not made by the page
isLive(call) == call.mount > 0 /\ call.mount = mount

totalQuestions == Len(mockQuestions)

hasQuestion == currentQuestion + 1 \in 1..totalQuestions

question == mockQuestions[currentQuestion + 1]

\* A mutation of the render: the questionnaire stays on the page after the
\* submission.
interactiveWhenSubmitted ==
    /\ mount > 0
    /\ ~loading
    /\ error = Null
    /\ assignment

\* the page shows the questionnaire: none of the early returns of the render
interactive ==
    /\ mount > 0
    /\ ~loading
    /\ error = Null
    /\ assignment
    /\ ~isSubmitted

\* answers[questionId]
answerOf(questionId) ==
    IF objHas(answers, questionId) THEN objGet(answers, questionId)
    ELSE JsUndefined

\* isQuestionAnswered, for an answer that is an array, a string or undefined
isQuestionAnswered(questionId) ==
    IF isArray(answerOf(questionId))
    THEN Len(answerOf(questionId).value) > 0
    ELSE /\ answerOf(questionId) # JsUndefined
         /\ answerOf(questionId) # JsString(<<>>)

\* ------------------------------------------------------------------ load
\* the loads that are still running
pendingLoads ==
    {i \in 1..Len(calls) : calls[i].kind = "load" /\ calls[i].pc # "done"}

\* The component mounts: the state hooks take their initial values and the
\* effect runs loadAssignmentData up to the fetch of the assignment.
Mount(id) ==
    /\ mount < MaxMounts
    /\ mount > 0 => id = routeId
    /\ Len(calls) < MaxCalls
    /\ mount' = mount + 1
    /\ routeId' = id
    /\ assignment' = FALSE
    /\ session' = None
    /\ currentQuestion' = 0
    /\ answers' = <<>>
    /\ isSubmitting' = FALSE
    /\ isSubmitted' = FALSE
    /\ IF isNaN(parseInt(id))
       THEN /\ error' = "Assignment not found."
            /\ loading' = FALSE
            /\ calls' = Append(calls,
                  [newCall("load", "done") EXCEPT
                      !.mount = mount + 1, !.route = id, !.log = <<>>,
                      !.result = "false"])
       ELSE /\ error' = Null
            /\ loading' = TRUE
            /\ calls' = Append(calls,
                  [newCall("load", "assignment") EXCEPT
                      !.mount = mount + 1, !.route = id,
                      !.pendingAtIssue = pendingLoads,
                      !.ackedAtIssue = ackedProgress])
    /\ UNCHANGED <<storeVars, ackedProgress, gradeVars, image>>

\* loadAssignmentData after getOrCreateHomeworkSession has returned
\* sessionData: the session is taken over, the responses are read back.
afterSession(c, call, sessionData) ==
    /\ calls' = [calls EXCEPT ![c] =
                    finish([call EXCEPT !.sessionData = sessionData], "true")]
    /\ IF isLive(call)
       THEN /\ IF sessionData # None
               THEN /\ session' = sessionData
                    /\ currentQuestion' = sessionData[1].current_question_index
                    /\ isSubmitted' = (isSubmitted \/ sessionData[1].is_completed)
               ELSE UNCHANGED <<session, currentQuestion, isSubmitted>>
            /\ answers' = getStudentHomeworkResponsesMap(mockResponsesStorage)
            /\ loading' = FALSE
       ELSE UNCHANGED <<session, currentQuestion, isSubmitted, answers, loading>>
    /\ UNCHANGED <<mockResponsesStorage, submissions, mount, routeId, assignment,
                   isSubmitting, error, ackedProgress, gradeVars, image>>

\* getHomeworkAssignment: the fetch of the assignment ends
ResolveAssignment(c, o) ==
    LET call == settle(calls[c], o) IN
    /\ calls[c].pc = "assignment"
    /\ IF o = "ok"
       THEN /\ assignment' = (IF isLive(call) THEN TRUE ELSE assignment)
            /\ calls' = [calls EXCEPT ![c] = issue(call, "lookup")]
            /\ UNCHANGED <<error, loading>>
       ELSE /\ calls' = [calls EXCEPT ![c] = finish(call, "false")]
            /\ IF isLive(call)
               THEN error' = "Assignment not found." /\ loading' = FALSE
               ELSE UNCHANGED <<error, loading>>
            /\ UNCHANGED assignment
    /\ UNCHANGED <<storeVars, mount, routeId, session, currentQuestion, answers,
                   isSubmitting, isSubmitted, ackedProgress, gradeVars, image>>

\* getOrCreateHomeworkSession: the lookup of the existing session ends
ResolveLookup(c, o) ==
    LET call == settle(calls[c], o)
        existingSession ==
            Some(maybeSingleSession(storedSession, mockUserId,
                                    parseInt(call.route).value))
    IN
    /\ calls[c].pc = "lookup"
    /\ CASE o = "ok" ->
              /\ calls' = [calls EXCEPT ![c] =
                    issue([call EXCEPT !.sessionData = existingSession], "touch")]
              /\ UNCHANGED <<storeVars, clientVars, ackedProgress, gradeVars, image>>
         [] o = "error" ->
              /\ calls' = [calls EXCEPT ![c] = issue(call, "insert")]
              /\ UNCHANGED <<storeVars, clientVars, ackedProgress, gradeVars, image>>
         [] o = "throw" ->
              /\ afterSession(c, call, None)
              /\ UNCHANGED storedSession

\* getOrCreateHomeworkSession: the update of last_activity ends
ResolveTouch(c, o) ==
    LET call == settle(calls[c], o) IN
    /\ calls[c].pc = "touch"
    /\ storedSession' =
          IF o = "ok" THEN updateSession(storedSession, sessionWrite(call, "touch"))
          ELSE storedSession
    /\ IF o = "throw"
       THEN afterSession(c, call, None)
       ELSE afterSession(c, call, call.sessionData)

\* getOrCreateHomeworkSession: the insert of the new session ends
ResolveInsert(c, o) ==
    LET call == settle(calls[c], o)
        data == [student_id |-> mockUserId,
                 assignment_id |-> parseInt(call.route).value,
                 current_question_index |-> 0,
                 is_completed |-> FALSE]
    IN
    /\ calls[c].pc = "insert"
    /\ UNCHANGED storedSession
    /\ IF o = "ok"
       THEN afterSession(c, call, Some(insertSession(data)))
       ELSE afterSession(c, call, None)

\* ---------------------------------------------------------------- answers
\* What the learner can enter for the question shown
inputsOf(q) ==
    CASE q.question_type = "multiple-choice" -> OptionTexts
      [] q.question_type = "short-answer" -> TypedTexts
      [] OTHER -> {}

\* isCorrect and pointsEarned as saveHomeworkResponse has them after a
\* branch of the auto-grading
graded(g, escaped) ==
    [is_correct |-> IF g.is_correct THEN "true" ELSE "false",
     points_earned |-> g.points_earned, escaped |-> escaped]

gradedTickbox(g) == graded(g, g.escaped)

\* saveHomeworkResponse: the auto-grading of the response
grade(q, responseText) ==
    CASE q.question_type = "multiple-choice" ->
            graded(gradeMultipleChoice(responseText, q.correct_answer, q.points),
                   FALSE)
      [] q.question_type = "tickbox" ->
            gradedTickbox(gradeTickbox(responseText, q.correct_answer, q.points))
      [] OTHER -> [is_correct |-> "undefined", points_earned |-> 0,
                   escaped |-> FALSE]

\* the saves of the same response key that are still awaiting the gateway
pendingSaves(questionId) ==
    {i \in 1..Len(calls) :
        /\ calls[i].kind = "save"
        /\ calls[i].question_id = questionId
        /\ calls[i].pc # "done"}

\* A mutation of the record: the points of the question, whatever the grading.
gradedSaveFullPoints(q, responseText, g) ==
    [newCall("save", IF g.escaped THEN "done" ELSE "upsert") EXCEPT
        !.question_id = q.id,
        !.response_text = responseText,
        !.is_correct = g.is_correct,
        !.points_earned = q.points,
        !.result = IF g.escaped THEN "false" ELSE "pending",
        !.log = IF g.escaped THEN <<>> ELSE @]

\* saveHomeworkResponse after the grading g of the response
gradedSave(q, responseText, g) ==
    [newCall("save", IF g.escaped THEN "done" ELSE "upsert") EXCEPT
        !.question_id = q.id,
        !.response_text = responseText,
        !.is_correct = g.is_correct,
        !.points_earned = g.points_earned,
        !.result = IF g.escaped THEN "false" ELSE "pending",
        !.log = IF g.escaped THEN <<>> ELSE @]

\* saveHomeworkResponse up to its upsert: the response is graded and the
\* record is handed to the gateway; an exception before that is caught and
\* false returned
saveHomeworkResponseCall(q, responseText) ==
    gradedSave(q, responseText, grade(q, responseText))

\* handleAnswer up to the upsert of saveHomeworkResponse
HandleAnswer(text) ==
    /\ interactive
    /\ hasQuestion
    /\ session # None
    /\ text \in inputsOf(question)
    /\ Len(calls) < MaxCalls
    /\ answers' = objSet(answers, question.id, JsString(text))
    /\ calls' = Append(calls,
          [saveHomeworkResponseCall(question, text) EXCEPT
              !.pendingAtIssue = pendingSaves(question.id)])
    /\ UNCHANGED <<storeVars, mount, routeId, assignment, session,
                   currentQuestion, isSubmitting, isSubmitted, loading, error,
                   ackedProgress, gradeVars, image>>

\* String.prototype.includes
stringIncludes(s, t) ==
    \E i \in 1..(Len(s) - Len(t) + 1) : SubSeq(s, i, i + Len(t) - 1) = t

\* x.includes(text), x an array or a string
includes(x, text) ==
    IF isArray(x) THEN \E n \in 1..Len(x.value) : x.value[n] = JsString(text)
    ELSE stringIncludes(x.value, text)

\* [...x], x an array or a string
spread(x) ==
    IF isArray(x) THEN x.value
    ELSE [i \in 1..Len(x.value) |-> JsString(<<x.value[i]>>)]

\* (answers[question.id] as string[]) || []
currentAnswersOf(questionId) ==
    IF answerOf(questionId) \in {JsUndefined, JsString(<<>>)} THEN JsArray(<<>>)
    ELSE answerOf(questionId)

\* the texts of an array of strings
textsOf(a) == [i \in 1..Len(a) |-> a[i].value]

\* newAnswers of handleTickboxAnswer, where computing it does not throw
newAnswersOf(currentAnswers, optionText) ==
    IF includes(currentAnswers, optionText)
    THEN SelectSeq(currentAnswers.value, LAMBDA answer : answer # JsString(optionText))
    ELSE Append(spread(currentAnswers), JsString(optionText))

\* handleTickboxAnswer up to the upsert of saveHomeworkResponse.  filter is
\* no function of a string: where currentAnswers is a string that includes
\* the option text the handler throws TypeError before setAnswers.
HandleTickboxAnswer(optionText) ==
    /\ interactive
    /\ hasQuestion
    /\ question.question_type = "tickbox"
    /\ session # None
    /\ Len(calls) < MaxCalls
    /\ IF /\ ~isArray(currentAnswersOf(question.id))
          /\ includes(currentAnswersOf(question.id), optionText)
       THEN /\ calls' = Append(calls,
                  [newCall("answer", "done") EXCEPT
                      !.question_id = question.id,
                      !.response_text = optionText,
                      !.log = <<>>, !.result = "TypeError"])
            /\ UNCHANGED answers
       ELSE /\ answers' = objSet(answers, question.id,
                  JsArray(newAnswersOf(currentAnswersOf(question.id), optionText)))
            /\ calls' = Append(calls,
                  [saveHomeworkResponseCall(question,
                      JSONstringify(textsOf(
                          newAnswersOf(currentAnswersOf(question.id), optionText))))
                   EXCEPT !.pendingAtIssue = pendingSaves(question.id)])
    /\ UNCHANGED <<storeVars, mount, routeId, assignment, session,
                   currentQuestion, isSubmitting, isSubmitted, loading, error,
                   ackedProgress, gradeVars, image>>

\* saveHomeworkResponse: the upsert ends; handleAnswer only logs a failure
ResolveUpsert(c, o) ==
    LET call == settle(calls[c], o) IN
    /\ calls[c].pc = "upsert"
    /\ IF o = "ok"
       THEN /\ mockResponsesStorage' = upsertResponse(mockResponsesStorage,
                  [question_id |-> call.question_id,
                   response_text |-> call.response_text])
            /\ calls' = [calls EXCEPT ![c] = finish(call, "true")]
       ELSE /\ calls' = [calls EXCEPT ![c] = finish(call, "false")]
            /\ UNCHANGED mockResponsesStorage
    /\ UNCHANGED <<storedSession, submissions, clientVars, ackedProgress,
                   gradeVars, image>>

\* ------------------------------------------------------------- navigation
\* handleNext / handlePrevious up to the update of
\* updateHomeworkSessionProgress
\* the progress writes that are still awaiting the gateway
pendingProgress ==
    {i \in 1..Len(calls) : calls[i].kind = "progress" /\ calls[i].pc # "done"}

\* A mutation of the navigation: the index is left for the write to settle.
navigateAfterWrite(newIndex) ==
    /\ session # None
    /\ Len(calls) < MaxCalls
    /\ calls' = Append(calls, [newCall("progress", "update") EXCEPT
                                  !.index = newIndex,
                                  !.pendingAtIssue = pendingProgress])
    /\ UNCHANGED <<storeVars, clientVars, ackedProgress, gradeVars, image>>

navigate(newIndex) ==
    /\ session # None
    /\ Len(calls) < MaxCalls
    /\ currentQuestion' = newIndex
    /\ calls' = Append(calls, [newCall("progress", "update") EXCEPT
                                  !.index = newIndex,
                                  !.pendingAtIssue = pendingProgress])
    /\ UNCHANGED <<storeVars, mount, routeId, assignment, session, answers,
                   isSubmitting, isSubmitted, loading, error, ackedProgress,
                   gradeVars, image>>

\* A mutation of the handler: the test against the last index is left out.
HandleNextUnguarded ==
    /\ interactive
    /\ hasQuestion
    /\ isQuestionAnswered(question.id)
    /\ navigate(currentQuestion + 1)

HandleNext ==
    /\ interactive
    /\ currentQuestion < totalQuestions - 1
    /\ hasQuestion
    /\ isQuestionAnswered(question.id)
    /\ navigate(currentQuestion + 1)

HandlePrevious ==
    /\ interactive
    /\ currentQuestion > 0
    /\ navigate(currentQuestion - 1)

\* updateHomeworkSessionProgress: the update ends
ResolveUpdate(c, o) ==
    LET call == settle(calls[c], o) IN
    /\ calls[c].pc = "update"
    /\ calls' = [calls EXCEPT ![c] =
                    finish(call, IF o = "ok" THEN "true" ELSE "false")]
    /\ storedSession' =
          IF o = "ok"
          THEN updateSession(storedSession, sessionWrite(call, "update"))
          ELSE storedSession
    /\ ackedProgress' =
          IF o = "ok"
          THEN Some([route |-> call.route, index |-> call.index])
          ELSE ackedProgress
    /\ UNCHANGED <<mockResponsesStorage, submissions, clientVars, gradeVars, image>>

\* ----------------------------------------------------------------- submit
\* areAllQuestionsAnswered
areAllQuestionsAnswered ==
    \A i \in 1..totalQuestions : isQuestionAnswered(mockQuestions[i].id)

\* the page shows the Submit button and it is not disabled
submitEnabled ==
    /\ interactive
    /\ currentQuestion >= totalQuestions - 1
    /\ areAllQuestionsAnswered
    /\ ~isSubmitting

\* handleSubmit up to the first update of submitHomeworkAssignment
HandleSubmit ==
    /\ interactive
    /\ currentQuestion >= totalQuestions - 1
    /\ areAllQuestionsAnswered
    /\ ~isSubmitting
    /\ session # None
    /\ Len(calls) < MaxCalls
    /\ isSubmitting' = TRUE
    /\ calls' = Append(calls,
          [newCall("submit", "complete") EXCEPT !.index = currentQuestion])
    /\ UNCHANGED <<storeVars, mount, routeId, assignment, session,
                   currentQuestion, answers, isSubmitted, loading, error,
                   ackedProgress, gradeVars, image>>

\* handleSubmit after submitHomeworkAssignment has returned false
submitFailed(c, call) ==
    /\ calls' = [calls EXCEPT ![c] = finish(call, "false")]
    /\ IF isLive(call)
       THEN /\ error' = "Failed to submit assignment. Please try again."
            /\ isSubmitting' = FALSE
       ELSE UNCHANGED <<error, isSubmitting>>

\* submitHomeworkAssignment: the update that marks the session completed ends
ResolveComplete(c, o) ==
    LET call == settle(calls[c], o) IN
    /\ calls[c].pc = "complete"
    /\ storedSession' =
          IF o = "ok" THEN updateSession(storedSession, sessionWrite(call, "complete"))
          ELSE storedSession
    /\ IF o = "throw"
       THEN submitFailed(c, call)
       ELSE /\ calls' = [calls EXCEPT ![c] = issue(call, "submission")]
            /\ UNCHANGED <<error, isSubmitting>>
    /\ UNCHANGED <<mockResponsesStorage, submissions, mount, routeId,
                   assignment, session, currentQuestion, answers, isSubmitted,
                   loading, ackedProgress, gradeVars, image>>

\* A mutation of the return value: an error of the completion update is
\* fatal too.
submitResultStrict(sessionOutcome, o) ==
    IF o = "ok" /\ sessionOutcome = "ok" THEN "true" ELSE "false"

\* the value submitHomeworkAssignment returns once the upsert of the
\* submission record has ended with outcome o
submitResult(sessionOutcome, o) == IF o = "ok" THEN "true" ELSE "false"

\* submitHomeworkAssignment: the upsert of the submission record ends
ResolveSubmission(c, o) ==
    LET call == settle(calls[c], o) IN
    /\ calls[c].pc = "submission"
    /\ submissions' =
          IF o = "ok"
          THEN upsertSubmission(submissions,
                  [student_id |-> call.student_id,
                   assignment_id |-> call.assignment_id])
          ELSE submissions
    /\ IF submitResult(call.log[1].outcome, o) = "true"
       THEN /\ calls' = [calls EXCEPT ![c] =
                            IF call.kind = "submit"
                            THEN issue([call EXCEPT !.result = "true"], "finalize")
                            ELSE finish(call, "true")]
            /\ UNCHANGED <<error, isSubmitting>>
       ELSE submitFailed(c, call)
    /\ UNCHANGED <<mockResponsesStorage, storedSession, mount, routeId,
                   assignment, session, currentQuestion, answers, isSubmitted,
                   loading, ackedProgress, gradeVars, image>>

\* handleSubmit: updateHomeworkSessionProgress(session.id, currentQuestion,
\* true) ends, whatever it returns
ResolveFinalize(c, o) ==
    LET call == settle(calls[c], o) IN
    /\ calls[c].pc = "finalize"
    /\ storedSession' =
          IF o = "ok"
          THEN updateSession(storedSession, sessionWrite(call, "finalize"))
          ELSE storedSession
    /\ ackedProgress' =
          IF o = "ok"
          THEN Some([route |-> call.route, index |-> call.index])
          ELSE ackedProgress
    /\ calls' = [calls EXCEPT ![c] = finish(call, "true")]
    /\ IF isLive(call)
       THEN isSubmitted' = TRUE /\ isSubmitting' = FALSE
       ELSE UNCHANGED <<isSubmitted, isSubmitting>>
    /\ UNCHANGED <<mockResponsesStorage, submissions, mount, routeId,
                   assignment, session, currentQuestion, answers, loading, error,
                   gradeVars, image>>

\* ------------------------------------------------------ the specifications
clientInit ==
    /\ mount = 0
    /\ routeId = <<>>
    /\ assignment = FALSE
    /\ session = None
    /\ currentQuestion = 0
    /\ answers = <<>>
    /\ isSubmitting = FALSE
    /\ isSubmitted = FALSE
    /\ loading = TRUE
    /\ error = Null

\* no ReliableImage is mounted
imageUnmounted ==
    [src |-> JsNull, currentSrc |-> JsNull, fallbackLevel |-> 0,
     hasError |-> FALSE, isVisible |-> FALSE,
     event |-> "none", onErrorCalled |-> FALSE, errors |-> 0]

gradeIdle ==
    /\ gradeIn = [responseText |-> <<>>, correct_answer |-> JsUndefined, points |-> 0]
    /\ gradeOut = None

Init ==
    /\ mockResponsesStorage = <<>>
    /\ storedSession = mockSession
    /\ submissions = <<>>
    /\ clientInit
    /\ calls = <<>>
    /\ ackedProgress = None
    /\ gradeIdle
    /\ image = imageUnmounted

\* The runs of Spec begin with the page not mounted and the store empty.  The
\* tickbox question is the third one: a run of Spec has spent its calls
\* before the learner can answer it, and handleTickboxAnswer is run in
\* ResumeSpec, handleSubmit in SubmitSpec and ResumeSpec.
Next ==
    \/ \E id \in RouteIds : Mount(id)
    \/ \E text \in OptionTexts \cup TypedTexts : HandleAnswer(text)
    \/ HandleNext
    \/ HandlePrevious
    \/ \E c \in 1..Len(calls), o \in Outcomes : ResolveAssignment(c, o)
    \/ \E c \in 1..Len(calls), o \in Outcomes : ResolveLookup(c, o)
    \/ \E c \in 1..Len(calls), o \in Outcomes : ResolveTouch(c, o)
    \/ \E c \in 1..Len(calls), o \in Outcomes : ResolveInsert(c, o)
    \/ \E c \in 1..Len(calls), o \in Outcomes : ResolveUpsert(c, o)
    \/ \E c \in 1..Len(calls), o \in Outcomes : ResolveUpdate(c, o)

Spec == Init /\ [][Next]_vars

\* The submit button is reached on the last question with every question
\* answered.  The runs of SubmitSpec begin in the page as it stands after the
\* learner has answered every question in turn and stepped to the last one,
\* every save and every progress write acknowledged: the stored responses
\* are the texts of the answers.
SubmitInit ==
    /\ mockResponsesStorage =
          << [key |-> "q1-uuid-mock", value |-> WaterAndSunlight],
             [key |-> "q2-uuid-mock", value |-> Fish],
             [key |-> "q3-uuid-mock", value |-> TreeJson] >>
    /\ storedSession = mockSession
    /\ submissions = <<>>
    /\ mount = 1
    /\ routeId = <<"1">>
    /\ assignment = TRUE
    /\ session = Some(mockSession)
    /\ currentQuestion = totalQuestions - 1
    /\ answers =
          << [key |-> "q1-uuid-mock", value |-> JsString(WaterAndSunlight)],
             [key |-> "q2-uuid-mock", value |-> JsString(Fish)],
             [key |-> "q3-uuid-mock", value |-> JsArray(<<JsString(Tree)>>)] >>
    /\ isSubmitting = FALSE
    /\ isSubmitted = FALSE
    /\ loading = FALSE
    /\ error = Null
    /\ calls = <<>>
    /\ ackedProgress = Some([route |-> <<"1">>, index |-> totalQuestions - 1])
    /\ gradeIdle
    /\ image = imageUnmounted

SubmitNext ==
    \/ \E text \in OptionTexts \cup TypedTexts : HandleAnswer(text)
    \/ HandleNext
    \/ HandlePrevious
    \/ HandleSubmit
    \/ \E c \in 1..Len(calls), o \in Outcomes : ResolveUpsert(c, o)
    \/ \E c \in 1..Len(calls), o \in Outcomes : ResolveUpdate(c, o)
    \/ \E c \in 1..Len(calls), o \in Outcomes : ResolveComplete(c, o)
    \/ \E c \in 1..Len(calls), o \in Outcomes : ResolveSubmission(c, o)
    \/ \E c \in 1..Len(calls), o \in Outcomes : ResolveFinalize(c, o)

SubmitSpec == SubmitInit /\ [][SubmitNext]_vars

\* The grader alone, on every pair of texts up to MaxLen characters.
GradeChars == {" ", "a", "A", "B"}
GradeTexts == UNION {[1..n -> GradeChars] : n \in 0..MaxLen}
GradePoints == {5, 10}

GradeInit ==
    /\ mockResponsesStorage = <<>>
    /\ storedSession = mockSession
    /\ submissions = <<>>
    /\ clientInit
    /\ calls = <<>>
    /\ ackedProgress = None
    /\ gradeIn \in [responseText : GradeTexts,
                    correct_answer : {JsString(t) : t \in GradeTexts} \cup {JsUndefined},
                    points : GradePoints]
    /\ gradeOut = None
    /\ image = imageUnmounted

Grade ==
    /\ gradeOut = None
    /\ gradeOut' = Some(gradeMultipleChoice(gradeIn.responseText,
                                            gradeIn.correct_answer, gradeIn.points))
    /\ UNCHANGED <<storeVars, clientVars, calls, ackedProgress, gradeIn, image>>

GradeSpec == GradeInit /\ [][Grade]_vars

\* The save of a tickbox response alone: saveHomeworkResponse is called with
\* the text of a selection, or with a text that is no JSON array.
TickLists == UNION {[1..n -> TickOptions] : n \in 0..MaxSelected}

\* texts JSON.parse throws on
NotJsonTexts ==
    { <<>>,
      Tree,
      <<"[", "\"", "T", "r", "e", "e", "\"">>,
      <<"[", "\"", "T", "r", "e", "e", "\"", ",", "]">>,
      <<"[", "T", "r", "e", "e", "]">>,
      <<"\"", "T", "r", "e", "e">>,
      <<"0", "1">> }

\* JSON texts of values that are no array
NotArrayTexts ==
    { <<"\"", "T", "r", "e", "e", "\"">>,
      <<"1">>,
      <<"n", "u", "l", "l">>,
      <<"t", "r", "u", "e">>,
      <<"{", "}">>,
      <<"{", "\"", "T", "r", "e", "e", "\"", ":", "1", "}">> }

\* JSON texts of arrays that are not the stringified selection
OtherArrayTexts ==
    { <<" ", "[", " ", "\"", "T", "r", "e", "e", "\"", " ", "]", "\n">>,
      <<"[", "1", "]">>,
      <<"[", "[", "\"", "T", "r", "e", "e", "\"", "]", "]">> }

TickTexts ==
    {JSONstringify(S) : S \in TickLists}
        \cup NotJsonTexts \cup NotArrayTexts \cup OtherArrayTexts

jsStrings(a) == [i \in 1..Len(a) |-> JsString(a[i])]

\* the correct lists the grader is tried on
CorrectLists ==
    { <<Tree, Dog, Flower>>, <<Tree>>, <<>>, <<Dog, Tree, Dog>> }

\* question.correct_answer: a list, a text, a record or nothing
TickCorrectAnswers ==
    {JsArray(jsStrings(C)) : C \in CorrectLists}
        \cup { JsString(JSONstringify(<<Tree, Dog>>)), JsString(<<>>),
               JsString(Tree), JsString(<<"1">>), JsObject(<<>>), JsUndefined }

TickInit ==
    /\ mockResponsesStorage = <<>>
    /\ storedSession = mockSession
    /\ submissions = <<>>
    /\ clientInit
    /\ calls = <<>>
    /\ ackedProgress = None
    /\ gradeIn \in [responseText : TickTexts,
                    correct_answer : TickCorrectAnswers,
                    points : GradePoints]
    /\ gradeOut = None
    /\ image = imageUnmounted

\* saveHomeworkResponse is called for the tickbox question
SaveTickboxResponse ==
    LET q == [id |-> "q3-uuid-mock", question_type |-> "tickbox",
              correct_answer |-> gradeIn.correct_answer,
              points |-> gradeIn.points]
    IN  /\ gradeOut = None
        /\ gradeOut' = Some(gradeTickbox(gradeIn.responseText,
                                         gradeIn.correct_answer, gradeIn.points))
        /\ calls' = Append(calls, saveHomeworkResponseCall(q, gradeIn.responseText))
        /\ UNCHANGED <<storeVars, clientVars, ackedProgress, gradeIn, image>>

TickNext ==
    \/ SaveTickboxResponse
    \/ \E c \in 1..Len(calls), o \in Outcomes : ResolveUpsert(c, o)

TickSpec == TickInit /\ [][TickNext]_vars

\* The save of a graded response alone: saveHomeworkResponse is called for a
\* multiple-choice or a tickbox question with a response text and a correct
\* answer of either kind.
RecordCorrectAnswers ==
    {JsString(<<"A", "B", " ">>), JsString(<<"a">>), JsUndefined}

RecordInit ==
    /\ mockResponsesStorage = <<>>
    /\ storedSession = mockSession
    /\ submissions = <<>>
    /\ clientInit
    /\ calls = <<>>
    /\ ackedProgress = None
    /\ gradeIn \in [responseText : GradeTexts,
                    correct_answer : RecordCorrectAnswers,
                    points : GradePoints]
               \cup [responseText : TickTexts,
                     correct_answer : TickCorrectAnswers,
                     points : GradePoints]
    /\ gradeOut = None
    /\ image = imageUnmounted

\* saveHomeworkResponse is called for the multiple-choice question
SaveMultipleChoiceResponse ==
    LET q == [id |-> "q1-uuid-mock", question_type |-> "multiple-choice",
              correct_answer |-> gradeIn.correct_answer,
              points |-> gradeIn.points]
    IN  /\ gradeOut = None
        /\ gradeOut' = Some(gradeMultipleChoice(gradeIn.responseText,
                                                gradeIn.correct_answer,
                                                gradeIn.points))
        /\ calls' = Append(calls, saveHomeworkResponseCall(q, gradeIn.responseText))
        /\ UNCHANGED <<storeVars, clientVars, ackedProgress, gradeIn, image>>

RecordNext ==
    \/ SaveMultipleChoiceResponse
    \/ SaveTickboxResponse
    \/ \E c \in 1..Len(calls), o \in Outcomes : ResolveUpsert(c, o)

RecordSpec == RecordInit /\ [][RecordNext]_vars

\* submitHomeworkAssignment called any number of times, by any caller, for
\* the students and the assignments of StudentIds and RouteIds.
StudentIds == {mockUserId, "student-user-456"}

\* submitHomeworkAssignment(studentId, assignmentId) up to its first update
SubmitHomeworkAssignment(studentId, assignmentId) ==
    /\ Len(calls) < MaxApiCalls
    /\ calls' = Append(calls,
          IF isNaN(parseInt(assignmentId))
          THEN [newCall("finalization", "done") EXCEPT
                   !.mount = 0, !.route = assignmentId,
                   !.student_id = studentId, !.log = <<>>, !.result = "false"]
          ELSE [newCall("finalization", "complete") EXCEPT
                   !.mount = 0, !.route = assignmentId,
                   !.student_id = studentId,
                   !.assignment_id = parseInt(assignmentId).value])
    /\ UNCHANGED <<storeVars, clientVars, ackedProgress, gradeVars, image>>

FinalizeNext ==
    \/ \E studentId \in StudentIds, id \in RouteIds :
          SubmitHomeworkAssignment(studentId, id)
    \/ \E c \in 1..Len(calls), o \in Outcomes : ResolveComplete(c, o)
    \/ \E c \in 1..Len(calls), o \in Outcomes : ResolveSubmission(c, o)

FinalizeSpec == Init /\ [][FinalizeNext]_vars

\* The page opened with any id in the route: the loads alone.
LoadIds == RouteIds \cup {<<"0">>, <<"-", "1">>, <<"a", "b", "c">>}

LoadNext ==
    \/ \E id \in LoadIds : Mount(id)
    \/ \E c \in 1..Len(calls), o \in Outcomes : ResolveAssignment(c, o)
    \/ \E c \in 1..Len(calls), o \in Outcomes : ResolveLookup(c, o)
    \/ \E c \in 1..Len(calls), o \in Outcomes : ResolveTouch(c, o)
    \/ \E c \in 1..Len(calls), o \in Outcomes : ResolveInsert(c, o)

LoadSpec == Init /\ [][LoadNext]_vars

\* saveHomeworkResponse called by any caller, for the students of StudentIds
\* and the assignment ids of ResponseIds, on the first question.
SaveHomeworkResponse(studentId, q, assignmentId, responseText) ==
    /\ Len(calls) < MaxApiCalls
    /\ calls' = Append(calls,
          IF isNaN(parseInt(assignmentId))
          THEN [newCall("save", "done") EXCEPT
                   !.mount = 0, !.route = assignmentId,
                   !.student_id = studentId, !.question_id = q.id,
                   !.response_text = responseText,
                   !.log = <<>>, !.result = "false"]
          ELSE [saveHomeworkResponseCall(q, responseText) EXCEPT
                   !.mount = 0, !.route = assignmentId,
                   !.student_id = studentId,
                   !.assignment_id = parseInt(assignmentId).value])
    /\ UNCHANGED <<storeVars, clientVars, ackedProgress, gradeVars, image>>

ResponseIds == RouteIds \cup {<<"a", "b", "c">>}

ResponsesNext ==
    \/ \E studentId \in StudentIds, id \in ResponseIds, text \in OptionTexts :
          SaveHomeworkResponse(studentId, mockQuestions[1], id, text)
    \/ \E c \in 1..Len(calls), o \in Outcomes : ResolveUpsert(c, o)

ResponsesSpec == Init /\ [][ResponsesNext]_vars

\* The gateway call that call c awaits has had no response yet.
awaited(c) ==
    /\ calls[c].pc # "done"
    /\ calls[c].log[Len(calls[c].log)].outcome = "pending"

\* The gateway never responds to the call that call c awaits: the promise
\* the handler awaits stays pending, and no await of the code has a timeout.
Unanswered(c) ==
    /\ awaited(c)
    /\ calls' = [calls EXCEPT
                    ![c].log = [@ EXCEPT ![Len(@)].outcome = "unanswered"]]
    /\ UNCHANGED <<storeVars, clientVars, ackedProgress, gradeVars, image>>

\* The gateway responds to a call that is awaited.
GatewayResponds ==
    \E c \in 1..Len(calls), o \in Outcomes :
        /\ awaited(c)
        /\ \/ ResolveUpsert(c, o)
           \/ ResolveUpdate(c, o)
           \/ ResolveComplete(c, o)
           \/ ResolveSubmission(c, o)
           \/ ResolveFinalize(c, o)

\* The runs of LiveSpec begin as those of SubmitSpec do.  A gateway call is
\* responded to, or it never is; a call that is awaited and not given up by
\* the gateway is responded to in the end.
LiveNext ==
    \/ \E text \in OptionTexts \cup TypedTexts : HandleAnswer(text)
    \/ HandleNext
    \/ HandlePrevious
    \/ HandleSubmit
    \/ \E c \in 1..Len(calls) : Unanswered(c)
    \/ GatewayResponds

LiveSpec == SubmitInit /\ [][LiveNext]_vars /\ WF_vars(GatewayResponds)

\* The learner comes back to the assignment.  The runs of ResumeSpec begin
\* with the page not mounted and the store as an earlier visit left it: every
\* question answered, the selection of the tickbox question one option or,
\* ticked and unticked again, none.
ResumeInit ==
    /\ mockResponsesStorage \in
          { << [key |-> "q1-uuid-mock", value |-> WaterAndSunlight],
               [key |-> "q2-uuid-mock", value |-> Fish],
               [key |-> "q3-uuid-mock", value |-> selection] >> :
            selection \in {TreeJson, JSONstringify(<<>>)} }
    /\ storedSession = mockSession
    /\ submissions = <<>>
    /\ clientInit
    /\ calls = <<>>
    /\ ackedProgress = None
    /\ gradeIdle
    /\ image = imageUnmounted

ResumeNext ==
    \/ \E id \in RouteIds : Mount(id)
    \/ \E text \in OptionTexts \cup TypedTexts : HandleAnswer(text)
    \/ \E optionText \in TickOptions : HandleTickboxAnswer(optionText)
    \/ HandleNext
    \/ HandlePrevious
    \/ HandleSubmit
    \/ \E c \in 1..Len(calls), o \in Outcomes : ResolveAssignment(c, o)
    \/ \E c \in 1..Len(calls), o \in Outcomes : ResolveLookup(c, o)
    \/ \E c \in 1..Len(calls), o \in Outcomes : ResolveTouch(c, o)
    \/ \E c \in 1..Len(calls), o \in Outcomes : ResolveInsert(c, o)
    \/ \E c \in 1..Len(calls), o \in Outcomes : ResolveUpsert(c, o)
    \/ \E c \in 1..Len(calls), o \in Outcomes : ResolveUpdate(c, o)
    \/ \E c \in 1..Len(calls), o \in Outcomes : ResolveComplete(c, o)
    \/ \E c \in 1..Len(calls), o \in Outcomes : ResolveSubmission(c, o)
    \/ \E c \in 1..Len(calls), o \in Outcomes : ResolveFinalize(c, o)

ResumeSpec == ResumeInit /\ [][ResumeNext]_vars

\* The three utilities that take an assignment id, called by any caller with
\* an id that parses and one that does not.
EngineIds == {<<"1">>, <<"a", "b", "c">>}

\* getOrCreateHomeworkSession(studentId, assignmentId) up to its lookup
GetOrCreateHomeworkSession(studentId, assignmentId) ==
    /\ Len(calls) < MaxApiCalls
    /\ calls' = Append(calls,
          IF isNaN(parseInt(assignmentId))
          THEN [newCall("session", "done") EXCEPT
                   !.mount = 0, !.route = assignmentId,
                   !.student_id = studentId, !.log = <<>>, !.result = "null"]
          ELSE [newCall("session", "lookup") EXCEPT
                   !.mount = 0, !.route = assignmentId,
                   !.student_id = studentId,
                   !.assignment_id = parseInt(assignmentId).value])
    /\ UNCHANGED <<storeVars, clientVars, ackedProgress, gradeVars, image>>

\* updateHomeworkSessionProgress(sessionId, currentQuestionIndex,
\* isCompleted) up to its update
UpdateHomeworkSessionProgress(currentQuestionIndex, isCompleted) ==
    /\ Len(calls) < MaxApiCalls
    /\ calls' = Append(calls,
          [newCall("progress", "update") EXCEPT
              !.mount = 0, !.route = <<"1">>,
              !.index = currentQuestionIndex,
              !.isCompleted = isCompleted])
    /\ UNCHANGED <<storeVars, clientVars, ackedProgress, gradeVars, image>>

EngineNext ==
    \/ \E isCompleted \in BOOLEAN : UpdateHomeworkSessionProgress(1, isCompleted)
    \/ \E c \in 1..Len(calls), o \in Outcomes : ResolveUpdate(c, o)
    \/ \E id \in EngineIds : GetOrCreateHomeworkSession(mockUserId, id)
    \/ \E id \in EngineIds :
          SaveHomeworkResponse(mockUserId, mockQuestions[1], id, WaterAndSunlight)
    \/ \E id \in EngineIds : SubmitHomeworkAssignment(mockUserId, id)
    \/ \E c \in 1..Len(calls), o \in Outcomes : ResolveLookup(c, o)
    \/ \E c \in 1..Len(calls), o \in Outcomes : ResolveTouch(c, o)
    \/ \E c \in 1..Len(calls), o \in Outcomes : ResolveInsert(c, o)
    \/ \E c \in 1..Len(calls), o \in Outcomes : ResolveUpsert(c, o)
    \/ \E c \in 1..Len(calls), o \in Outcomes : ResolveComplete(c, o)
    \/ \E c \in 1..Len(calls), o \in Outcomes : ResolveSubmission(c, o)

EngineSpec == Init /\ [][EngineNext]_vars

\* The learner comes back and moves through the questions answered in the
\* earlier visit: the loads and the navigation alone.
CursorNext ==
    \/ \E id \in RouteIds : Mount(id)
    \/ HandleNext
    \/ HandlePrevious
    \/ \E c \in 1..Len(calls), o \in Outcomes : ResolveAssignment(c, o)
    \/ \E c \in 1..Len(calls), o \in Outcomes : ResolveLookup(c, o)
    \/ \E c \in 1..Len(calls), o \in Outcomes : ResolveTouch(c, o)
    \/ \E c \in 1..Len(calls), o \in Outcomes : ResolveInsert(c, o)
    \/ \E c \in 1..Len(calls), o \in Outcomes : ResolveUpdate(c, o)

CursorSpec == ResumeInit /\ [][CursorNext]_vars

\* ---------------------------------------------------------- ReliableImage
\* PLACEHOLDER_IMAGE_DATA_URI: a data: URI
PLACEHOLDER_IMAGE_DATA_URI == <<"d", "a", "t", "a", ":">>

Https == <<"h", "t", "t", "p", "s", ":", "/", "/">>
SchemeMark == <<":", "/", "/">>

\* the prefixes validateAndCleanUrl accepts as they are
UrlPrefixes ==
    { Https, <<"h", "t", "t", "p", ":", "/", "/">>, <<"/">>,
      <<"d", "a", "t", "a", ":">>, <<".", "/">>, <<".", ".", "/">> }

\* String.prototype.startsWith
startsWith(s, prefix) ==
    Len(prefix) <= Len(s) /\ SubSeq(s, 1, Len(prefix)) = prefix

\* String.prototype.indexOf, for a text that occurs in s
indexOf(s, t) ==
    CHOOSE i \in 1..Len(s) :
        /\ SubSeq(s, i, i + Len(t) - 1) = t
        /\ \A j \in 1..(i - 1) : SubSeq(s, j, j + Len(t) - 1) # t

\* url.split('://')[1], for a url that includes '://'
secondPart(url) ==
    LET rest == SubSeq(url, indexOf(url, SchemeMark) + Len(SchemeMark), Len(url))
    IN IF stringIncludes(rest, SchemeMark)
       THEN SubSeq(rest, 1, indexOf(rest, SchemeMark) - 1)
       ELSE rest

\* a value that counts as true in a condition: a string that is not empty
truthy(x) == x.type = "string" /\ x.value # <<>>

\* validateAndCleanUrl: the cleaned url, or null
validateAndCleanUrl(url) ==
    IF ~truthy(url) THEN JsNull
    ELSE LET trimmedUrl == trim(url.value) IN
         CASE trimmedUrl = <<>> -> JsNull
           [] trimmedUrl # <<>> /\ \E prefix \in UrlPrefixes : startsWith(trimmedUrl, prefix) ->
                 JsString(trimmedUrl)
           [] OTHER ->
                 IF /\ stringIncludes(trimmedUrl, SchemeMark)
                    /\ ~startsWith(trimmedUrl, <<"h", "t", "t", "p">>)
                 THEN JsString(Https \o secondPart(trimmedUrl))
                 ELSE IF /\ stringIncludes(trimmedUrl, <<".">>)
                         /\ ~stringIncludes(trimmedUrl, <<" ">>)
                         /\ ~stringIncludes(trimmedUrl, <<"\n">>)
                      THEN JsString(Https \o trimmedUrl)
                      ELSE JsNull

\* src.trim().replace(/\s+/g, '').replace(/\n/g, '')
cleanedUrlOf(src) ==
    JsString(SelectSeq(trim(src.value), LAMBDA ch : ch \notin WhiteSpace))

\* the effect that initializes the source, run after a render of img
initializeSource(img) ==
    IF /\ truthy(img.src)
       /\ ~truthy(img.currentSrc)
       /\ img.fallbackLevel = 0
       /\ img.isVisible
    THEN IF truthy(validateAndCleanUrl(img.src))
         THEN [img EXCEPT !.currentSrc = validateAndCleanUrl(img.src)]
         ELSE [img EXCEPT !.currentSrc = JsString(PLACEHOLDER_IMAGE_DATA_URI),
                          !.fallbackLevel = 2]
    ELSE img

\* A mutation of the handler: at level 1 the cleaned url is tried again.
handleErrorRetrying(img) ==
    IF /\ img.fallbackLevel < 2
       /\ truthy(img.src)
       /\ truthy(validateAndCleanUrl(cleanedUrlOf(img.src)))
    THEN [img EXCEPT !.currentSrc = cleanedUrlOf(img.src), !.fallbackLevel = 1,
                     !.onErrorCalled = FALSE]
    ELSE IF img.fallbackLevel < 2
    THEN [img EXCEPT !.currentSrc = JsString(PLACEHOLDER_IMAGE_DATA_URI),
                     !.fallbackLevel = 2, !.onErrorCalled = FALSE]
    ELSE [img EXCEPT !.hasError = TRUE, !.fallbackLevel = 3,
                     !.onErrorCalled = TRUE]

\* handleError of a mounted component: the state it sets, and whether it
\* calls the onError prop
handleError(img) ==
    IF /\ img.fallbackLevel = 0
       /\ truthy(img.src)
       /\ cleanedUrlOf(img.src) # img.currentSrc
       /\ truthy(validateAndCleanUrl(cleanedUrlOf(img.src)))
    THEN [img EXCEPT !.currentSrc = cleanedUrlOf(img.src), !.fallbackLevel = 1,
                     !.onErrorCalled = FALSE]
    ELSE IF img.fallbackLevel < 2
    THEN [img EXCEPT !.currentSrc = JsString(PLACEHOLDER_IMAGE_DATA_URI),
                     !.fallbackLevel = 2, !.onErrorCalled = FALSE]
    ELSE [img EXCEPT !.hasError = TRUE, !.fallbackLevel = 3,
                     !.onErrorCalled = TRUE]

\* the render returns the text fallback, not the img element
textFallback(img) == img.hasError \/ img.fallbackLevel = 3

\* the values of the src prop the component is tried on
ImageSrcs ==
    { JsNull, JsString(<<>>),
      JsString(<<"/", "a">>),                  \* accepted as it is
      JsString(<<"/", "a", " ", "b">>),        \* cleaning removes a blank
      JsString(<<" ", "/", "a">>),             \* trimmed, then accepted
      JsString(<<"a", ".", "b">>),             \* taken for a domain
      JsString(<<"x", ":", "/", "/", "a">>),   \* another scheme
      JsString(<<"x">>),                       \* no url
      JsString(<<" ">>) }                      \* blank

\* The component is mounted with a src, with priority or without: the state
\* hooks take their initial values and the effects of the first render run.
ImageInit ==
    /\ mockResponsesStorage = <<>>
    /\ storedSession = mockSession
    /\ submissions = <<>>
    /\ clientInit
    /\ calls = <<>>
    /\ ackedProgress = None
    /\ gradeIdle
    /\ image \in { initializeSource([imageUnmounted EXCEPT
                       !.src = src, !.isVisible = priority, !.event = "mount"]) :
                   src \in ImageSrcs, priority \in BOOLEAN }

\* the img element reports a load error: handleError, then the effects
ImageError ==
    /\ ~textFallback(image)
    /\ image' = initializeSource([handleError(image) EXCEPT
                    !.event = "error", !.errors = @ + 1])
    /\ UNCHANGED <<storeVars, clientVars, calls, ackedProgress, gradeVars>>

\* the img element reports a load: handleLoad sets no state
ImageLoad ==
    /\ ~textFallback(image)
    /\ image' = [image EXCEPT !.event = "load", !.onErrorCalled = FALSE]
    /\ UNCHANGED <<storeVars, clientVars, calls, ackedProgress, gradeVars>>

\* the IntersectionObserver reports the element as intersecting
Intersecting ==
    /\ ~image.isVisible
    /\ image' = initializeSource([image EXCEPT
                    !.isVisible = TRUE, !.event = "visible",
                    !.onErrorCalled = FALSE])
    /\ UNCHANGED <<storeVars, clientVars, calls, ackedProgress, gradeVars>>

\* The parent renders the component with another src: the effect on [src]
\* resets the state, the effect that initializes the source follows.
ChangeSrc(src) ==
    /\ src # image.src
    /\ image' = initializeSource([image EXCEPT
                    !.src = src, !.currentSrc = JsNull, !.fallbackLevel = 0,
                    !.hasError = FALSE, !.event = "src",
                    !.onErrorCalled = FALSE, !.errors = 0])
    /\ UNCHANGED <<storeVars, clientVars, calls, ackedProgress, gradeVars>>

ImageNext ==
    \/ ImageError
    \/ ImageLoad
    \/ Intersecting
    \/ \E src \in ImageSrcs : ChangeSrc(src)

ImageSpec == ImageInit /\ [][ImageNext]_vars

\* ------------------------------------------------------------- properties
saveCalls == {i \in 1..Len(calls) : calls[i].kind = "save"}
loadCalls == {i \in 1..Len(calls) : calls[i].kind = "load"}
submitCalls == {i \in 1..Len(calls) : calls[i].kind = "submit"}

\* the gateway calls `op` the call has made
made(call, op) == {n \in 1..Len(call.log) : call.log[n].op = op}

\* the call has made a gateway call `op` that ended with `outcome`
ended(call, op, outcome) ==
    \E n \in made(call, op) : call.log[n].outcome = outcome

stored(questionId, text) ==
    /\ objHas(mockResponsesStorage, questionId)
    /\ objGet(mockResponsesStorage, questionId) = text

\* C1: last write wins.  When answer A and then answer B are saved for the
\* same question, B while A's write is pending, and both writes have been
\* acknowledged and no later save of that question was issued, the stored
\* response of the question is B.
C1_LastWriteWins ==
    \A a \in saveCalls, b \in saveCalls :
        ( /\ a < b
          /\ calls[a].question_id = calls[b].question_id
          /\ a \in calls[b].pendingAtIssue
          /\ calls[a].result = "true"
          /\ calls[b].result = "true"
          /\ \A k \in saveCalls :
                calls[k].question_id = calls[b].question_id => k <= b )
        => stored(calls[b].question_id, calls[b].response_text)

\* The session rows the store holds for a student and an assignment: the row
\* the mock answers lookups with, if it is theirs, and the rows whose insert
\* the gateway acknowledged (the mock keeps no copy of an inserted row).
sessionRowsFor(student_id, assignment_id) ==
    (IF /\ storedSession.student_id = student_id
        /\ storedSession.assignment_id = assignment_id
     THEN 1 ELSE 0)
    + Cardinality({i \in loadCalls :
          /\ parseInt(calls[i].route) = Num(assignment_id)
          /\ ended(calls[i], "insert", "ok")})

\* C2: session singleton.  Two concurrent loads for a (student, assignment)
\* the store held no session for, once getOrCreate has returned a session in
\* both: the two sessions have the same id, and the store holds exactly one
\* session row for the pair.
C2_SessionSingleton ==
    \A a \in loadCalls, b \in loadCalls :
        ( /\ a \in calls[b].pendingAtIssue
          /\ calls[a].route = calls[b].route
          /\ parseInt(calls[a].route) # Num(mockSession.assignment_id)
          /\ calls[a].pc = "done"
          /\ calls[b].pc = "done"
          /\ calls[a].sessionData # None
          /\ calls[b].sessionData # None )
        => /\ calls[a].sessionData[1].id = calls[b].sessionData[1].id
           /\ sessionRowsFor(mockUserId, parseInt(calls[a].route).value) = 1

\* C3: idempotent save.  Every acknowledged save leaves exactly one stored
\* record for its question, with its text; and when that text was already
\* the stored one, the store after the save is the store before it.
C3_IdempotentSave ==
    [][ \A c \in saveCalls :
          ( /\ calls[c].pc = "upsert"
            /\ calls'[c].result = "true" )
          => /\ objCount(mockResponsesStorage', calls[c].question_id) = 1
             /\ objGet(mockResponsesStorage', calls[c].question_id)
                   = calls[c].response_text
             /\ stored(calls[c].question_id, calls[c].response_text)
                   => mockResponsesStorage' = mockResponsesStorage ]_vars

\* Two saves of the same text for the same question have both been
\* acknowledged.
C3_Witness ==
    \E a \in saveCalls, b \in saveCalls :
        /\ a < b
        /\ calls[a].question_id = calls[b].question_id
        /\ calls[a].response_text = calls[b].response_text
        /\ calls[a].result = "true"
        /\ calls[b].result = "true"

\* The mock gateway keeps no table of completion flags or of submission
\* records: it acknowledges the write.  What the store holds of them is read
\* off the acknowledged writes of the submit.
completionWritten(call) == ended(call, "complete", "ok")
submissionWritten(call) == ended(call, "submission", "ok")
submissionFailed(call) == ended(call, "submission", "failed")

\* C4: when submit returns and its write of the submission record failed,
\* the session has not been marked completed.
C4_NoCompletionWithoutSubmission ==
    \A c \in submitCalls :
        (calls[c].pc = "done" /\ submissionFailed(calls[c]))
        => ~completionWritten(calls[c])

\* C5: when the write of the submission record succeeded and the write that
\* marks the session completed failed, the submission record is written and
\* submit has reported success: handleSubmit goes on to its success branch
\* and shows no error.
C5_SubmissionSurvivesCompletionFailure ==
    \A c \in submitCalls :
        ( /\ submissionWritten(calls[c])
          /\ ended(calls[c], "complete", "error") )
        => /\ calls[c].result = "true"
           /\ calls[c].pc \in {"finalize", "done"}
           /\ isLive(calls[c]) => error = Null

C5_Witness ==
    \E c \in submitCalls :
        /\ submissionWritten(calls[c])
        /\ ended(calls[c], "complete", "error")
        /\ calls[c].pc = "done"
        /\ isSubmitted

\* C6: monotonic resumption.  A load that began after the gateway had
\* acknowledged a progress write of index n for the same assignment gets
\* from getOrCreate a session whose current question index is at least n.
C6_MonotonicResumption ==
    \A c \in loadCalls :
        ( /\ calls[c].pc = "done"
          /\ calls[c].sessionData # None
          /\ calls[c].ackedAtIssue # None
          /\ calls[c].ackedAtIssue[1].route = calls[c].route )
        => calls[c].sessionData[1].current_question_index
              >= calls[c].ackedAtIssue[1].index

\* C7: a save of the live page that ends in failure changes what the page
\* holds and shows.
C7_SaveFailureSurfaced ==
    [][ \A c \in saveCalls :
          ( /\ calls[c].pc = "upsert"
            /\ calls'[c].result = "false"
            /\ isLive(calls[c]) )
          => clientVars' # clientVars ]_vars

\* C8: a save returns failure only after three attempts of the write.
C8_BoundedRetry ==
    \A c \in saveCalls :
        calls[c].result = "false"
        => Cardinality(made(calls[c], "upsert")) = 3

\* C9: no insert of a session is issued after a lookup that failed with an
\* error unless the lookup was tried again first.
C9_NoEagerCreation ==
    \A c \in loadCalls :
        ( /\ made(calls[c], "insert") # {}
          /\ ended(calls[c], "lookup", "error") )
        => Cardinality(made(calls[c], "lookup")) >= 2

\* What C10 calls equal after trimming and ignoring case: the two texts
\* have cores, between leading and trailing white space, of the same length
\* whose characters agree up to the case of a letter.
sameLetter(x, y) ==
    x = y \/ \E n \in 1..26 : {x, y} = {UpperCase[n], LowerCase[n]}

isCore(s, i, j) ==
    /\ \A n \in 1..i : s[n] \in WhiteSpace
    /\ \A n \in (j + 1)..Len(s) : s[n] \in WhiteSpace
    /\ i < j => (s[i + 1] \notin WhiteSpace /\ s[j] \notin WhiteSpace)

equalTrimmedIgnoringCase(r, c) ==
    \E i \in 0..Len(r), k \in 0..Len(c) :
        \E j \in i..Len(r), l \in k..Len(c) :
            /\ isCore(r, i, j)
            /\ isCore(c, k, l)
            /\ j - i = l - k
            /\ \A n \in 1..(j - i) : sameLetter(r[i + n], c[k + n])

\* C10: multiple-choice grading.  The response is graded correct exactly
\* when it equals the correct answer after trimming and ignoring case; the
\* points earned are the question's points when correct and 0 otherwise.
C10_MultipleChoiceGrading ==
    (gradeOut # None /\ IsText(gradeIn.correct_answer))
    => /\ gradeOut[1].is_correct
            <=> equalTrimmedIgnoringCase(gradeIn.responseText,
                                         gradeIn.correct_answer.value)
       /\ gradeOut[1].points_earned
            = IF gradeOut[1].is_correct THEN gradeIn.points ELSE 0

\* A response that differs from the correct answer in case and in
\* surrounding white space has been graded correct.
C10_Witness ==
    /\ gradeOut # None
    /\ IsText(gradeIn.correct_answer)
    /\ gradeOut[1].is_correct
    /\ gradeOut[1].points_earned = gradeIn.points
    /\ gradeIn.responseText = <<" ", "a", "B">>
    /\ gradeIn.correct_answer.value = <<"A", "B", " ">>

\* the selection whose stringified text the grader was given, if it is one
selectionsGraded == {S \in TickLists : gradeIn.responseText = JSONstringify(S)}

range(a) == {a[i] : i \in 1..Len(a)}

\* C11: tickbox grading.  For a selected list S, in any order and with or
\* without repeated entries, and a correct list C, the response is graded
\* correct exactly when the set of S is the set of C, and earns the
\* question's points then and 0 otherwise; a strict subset or superset of C
\* is graded incorrect.
C11_TickboxGrading ==
    \A S \in selectionsGraded, C \in CorrectLists :
        (gradeOut # None /\ gradeIn.correct_answer = JsArray(jsStrings(C)))
        => /\ gradeOut[1].is_correct <=> range(S) = range(C)
           /\ gradeOut[1].points_earned
                 = IF range(S) = range(C) THEN gradeIn.points ELSE 0

\* A selection in another order than the correct list, with an entry
\* repeated, has been graded correct.
C11_Witness ==
    /\ gradeOut # None
    /\ gradeIn.responseText = JSONstringify(<<Tree, Dog, Tree>>)
    /\ gradeIn.correct_answer = JsArray(jsStrings(<<Dog, Tree, Dog>>))
    /\ gradeOut[1].is_correct
    /\ gradeOut[1].points_earned = gradeIn.points

\* C12: the grader never throws.  Whatever the response text of a tickbox
\* question, no exception leaves the grading and the save hands the record,
\* with the grading, to the gateway; a text that is not JSON, or is JSON of
\* a value that is no array, is graded not correct with 0 points.
C12_GraderNeverThrows ==
    gradeOut # None
    => /\ ~gradeOut[1].escaped
       /\ \A c \in saveCalls :
             /\ made(calls[c], "upsert") # {}
             /\ calls[c].response_text = gradeIn.responseText
             /\ calls[c].is_correct = (IF gradeOut[1].is_correct THEN "true" ELSE "false")
             /\ calls[c].points_earned = gradeOut[1].points_earned
       /\ saveCalls # {}
       /\ gradeIn.responseText \in NotJsonTexts \cup NotArrayTexts
             => (~gradeOut[1].is_correct /\ gradeOut[1].points_earned = 0)

\* The record of a response text that is not JSON has been written, graded
\* not correct.
C12_Witness ==
    /\ gradeOut # None
    /\ gradeIn.responseText = Tree
    /\ \E c \in saveCalls :
          /\ calls[c].result = "true"
          /\ calls[c].is_correct = "false"
          /\ stored("q3-uuid-mock", Tree)

finalizations == {i \in 1..Len(calls) : calls[i].kind = "finalization"}

\* C13: idempotent finalization.  Whatever number of submits was made for a
\* student and an assignment, retries after a reported failure among them,
\* the store was given at most one submission record for the pair.
C13_IdempotentFinalization ==
    \A i \in 1..Len(submissions), j \in 1..Len(submissions) :
        ( /\ submissions[i].value.student_id = submissions[j].value.student_id
          /\ submissions[i].value.assignment_id = submissions[j].value.assignment_id )
        => i = j

\* A submit that reported failure was followed by two that succeeded, for the
\* same student and assignment.
C13_Witness ==
    \E a \in finalizations, b \in finalizations, c \in finalizations :
        /\ a < b
        /\ b < c
        /\ calls[a].student_id = calls[b].student_id
        /\ calls[b].student_id = calls[c].student_id
        /\ calls[a].assignment_id = calls[b].assignment_id
        /\ calls[b].assignment_id = calls[c].assignment_id
        /\ calls[a].result = "false"
        /\ calls[b].result = "true"
        /\ calls[c].result = "true"
        /\ Len(submissions) = 1

\* the identifier parses to a positive integer
isPositiveId(id) == ~isNaN(parseInt(id)) /\ parseInt(id).value > 0

\* C14: fail-fast validation of the identifier.  A load with an identifier
\* that does not parse to a positive integer, be it not a number, zero or
\* negative, has failed and has made no gateway call.
C14_FailFastValidation ==
    \A c \in loadCalls :
        ~isPositiveId(calls[c].route)
        => /\ calls[c].log = <<>>
           /\ calls[c].result = "false"

\* C15: recoverable submit failure.  After the submit of the live page has
\* reported failure the page is not in the submitted state, shows an error,
\* still holds the answers, and offers the submit again.
C15_RecoverableSubmitFailure ==
    \A c \in submitCalls :
        ( /\ calls[c].result = "false"
          /\ isLive(calls[c])
          /\ \A d \in submitCalls : d <= c )
        => /\ ~isSubmitted
           /\ error # Null
           /\ areAllQuestionsAnswered
           /\ submitEnabled

\* C16: a failed load of the session is not silent.  When the load of the
\* live page has ended and getOrCreateHomeworkSession gave it no session, the
\* page shows an error and not the questionnaire, in which a selected answer
\* would be neither kept nor sent.
C16_SessionLoadFailureShown ==
    \A c \in loadCalls :
        ( /\ isLive(calls[c])
          /\ calls[c].pc = "done"
          /\ made(calls[c], "lookup") # {}
          /\ calls[c].sessionData = None )
        => /\ error # Null
           /\ ~interactive

\* C17: responses are scoped by student, question and assignment.  What
\* getStudentHomeworkResponsesMap returns for a student and an assignment
\* holds, for each question, an answer that a save under that student and
\* that assignment wrote.
C17_ResponsesScoped ==
    \A studentId \in StudentIds, id \in RouteIds :
        LET responses == getStudentHomeworkResponsesMap(mockResponsesStorage) IN
        \A n \in 1..Len(responses) :
            \E c \in saveCalls :
                /\ calls[c].student_id = studentId
                /\ calls[c].assignment_id = parseInt(id).value
                /\ calls[c].question_id = responses[n].key
                /\ JsString(calls[c].response_text) = responses[n].value
                /\ calls[c].result = "true"

\* C18: best-effort touch.  When the lookup found the session and the update
\* of last_activity failed, by an error result or by throwing,
\* getOrCreateHomeworkSession has still returned the session found.
C18_BestEffortTouch ==
    \A c \in loadCalls :
        ( /\ calls[c].pc = "done"
          /\ ended(calls[c], "lookup", "ok")
          /\ ended(calls[c], "touch", "error") \/ ended(calls[c], "touch", "throw") )
        => /\ calls[c].sessionData # None
           /\ calls[c].sessionData[1].id = storedSession.id

progressCalls == {i \in 1..Len(calls) : calls[i].kind = "progress"}

\* C19: navigation is not blocked by persistence.  With the step of Next or
\* Previous that issues the progress write the current question index takes
\* its new value, the write still pending; the step in which the write
\* settles, with success or failure, leaves the index as it is.
C19_NavigationNotBlocked ==
    [][ /\ ( /\ Len(calls') = Len(calls) + 1
             /\ calls'[Len(calls')].kind = "progress" )
           => /\ calls'[Len(calls')].pc = "update"
              /\ calls'[Len(calls')].index \in {currentQuestion - 1, currentQuestion + 1}
              /\ currentQuestion' = calls'[Len(calls')].index
        /\ \A c \in progressCalls :
              (calls[c].pc = "update" /\ calls'[c].pc = "done")
              => currentQuestion' = currentQuestion ]_vars

\* The page is on the question it stepped to, the progress write of the step
\* has failed and that of an earlier step has not settled.
C19_Witness ==
    \E c \in progressCalls, d \in progressCalls :
        /\ d < c
        /\ calls[d].pc = "update"
        /\ calls[c].result = "false"
        /\ isLive(calls[c])
        /\ currentQuestion = calls[c].index
        /\ calls[c].index # calls[d].index

\* C20: the latest progress intent wins.  When two progress writes were
\* issued one after the other, the second while the first was pending, and
\* every progress write has settled with success, the durable index, the
\* stored one or the one last acknowledged, is that of the last write issued.
C20_LatestProgressWins ==
    \A a \in progressCalls, b \in progressCalls :
        ( /\ a \in calls[b].pendingAtIssue
          /\ \A c \in progressCalls : c <= b /\ calls[c].result = "true"
          /\ submitCalls = {} )
        => \/ storedSession.current_question_index = calls[b].index
           \/ /\ ackedProgress # None
              /\ ackedProgress[1].index = calls[b].index

\* the response saves that are still awaiting the gateway
savesInFlight == {i \in saveCalls : calls[i].pc # "done"}

\* C21: submit waits for the saves to settle.  No step hands a write of a
\* submit to the gateway while a response save is in flight, and no response
\* save lands in the store once the submission record has been written.
C21_SubmitWaitsForSaves ==
    [][ /\ \A c \in 1..Len(calls') :
              ( /\ calls'[c].kind = "submit"
                /\ calls'[c].pc # "done"
                /\ c \in 1..Len(calls) => calls'[c].pc # calls[c].pc )
              => savesInFlight = {}
        /\ \A s \in savesInFlight :
              (calls'[s].pc = "done" /\ calls'[s].result = "true")
              => submissions = <<>> ]_vars

\* the selection a JSON text stands for is an array with an element
selectionHeld(v) == v.ok /\ isArray(v.value) /\ Len(v.value.value) > 0

\* The client holds a non-empty answer for question q: a selection with an
\* element for the tickbox question, a text with a character otherwise.
hasAnswer(q) ==
    CASE answerOf(q.id) = JsUndefined -> FALSE
      [] isArray(answerOf(q.id)) -> Len(answerOf(q.id).value) > 0
      [] q.question_type = "tickbox" -> selectionHeld(JSONparse(answerOf(q.id).value))
      [] OTHER -> answerOf(q.id).value # <<>>

\* C22: submit runs once and only when complete.  A step that starts a
\* submit starts it where the client holds a non-empty answer for every
\* question, no earlier submit being in progress or having succeeded.
C22_SubmitOnceWhenComplete ==
    [][ ( /\ Len(calls') = Len(calls) + 1
          /\ calls'[Len(calls')].kind = "submit" )
        => /\ \A i \in 1..totalQuestions : hasAnswer(mockQuestions[i])
           /\ \A d \in submitCalls :
                 calls[d].pc = "done" /\ calls[d].result = "false" ]_vars

\* C23: not-found is told from failure.  When the fetch of the assignment
\* failed at the backend the page does not report 'Assignment not found.';
\* that message is shown only after the backend has answered the fetch.
C23_NotFoundDistinguishable ==
    \A c \in loadCalls :
        (isLive(calls[c]) /\ error = "Assignment not found.")
        => /\ ~ended(calls[c], "assignment", "failed")
           /\ made(calls[c], "assignment") # {}

\* C24: the entry loads run in parallel.  The lookup of the session is
\* issued without waiting for the fetch of the assignment: whenever a load
\* has issued the fetch it has issued the lookup too.
C24_ParallelEntryLoads ==
    \A c \in loadCalls :
        made(calls[c], "assignment") # {} => made(calls[c], "lookup") # {}

\* the records of responses that were handed to the gateway
recordsWritten == {c \in saveCalls : made(calls[c], "upsert") # {}}

\* the correct answer the multiple-choice comparison is made with
correctText == IF IsText(gradeIn.correct_answer) THEN gradeIn.correct_answer.value
               ELSE <<>>

\* C25: the stored grading is consistent.  Every record written for a
\* multiple-choice or a tickbox question carries the grading of its own
\* response text: correct exactly when the text equals the correct answer
\* after trimming and ignoring case, or when the selection it lists is the set
\* of the correct list; not correct when the text of a tickbox response is no
\* JSON array; the question's points when correct and 0 otherwise.
C25_StoredGradingConsistent ==
    \A c \in recordsWritten :
        /\ calls[c].is_correct \in {"true", "false"}
        /\ calls[c].points_earned
              = IF calls[c].is_correct = "true" THEN gradeIn.points ELSE 0
        /\ calls[c].question_id = "q1-uuid-mock"
              => ( calls[c].is_correct = "true"
                   <=> equalTrimmedIgnoringCase(calls[c].response_text, correctText) )
        /\ calls[c].question_id = "q3-uuid-mock"
              => /\ \A S \in TickLists, C \in CorrectLists :
                       ( /\ calls[c].response_text = JSONstringify(S)
                         /\ gradeIn.correct_answer = JsArray(jsStrings(C)) )
                       => (calls[c].is_correct = "true" <=> range(S) = range(C))
                 /\ calls[c].response_text \in NotJsonTexts \cup NotArrayTexts
                       => calls[c].is_correct = "false"

\* The record of a selection that is the correct list in another order has
\* been written and acknowledged, graded correct with the question's points.
C25_Witness ==
    \E c \in recordsWritten :
        /\ calls[c].question_id = "q3-uuid-mock"
        /\ calls[c].response_text = JSONstringify(<<Flower, Dog, Tree>>)
        /\ gradeIn.correct_answer = JsArray(jsStrings(<<Tree, Dog, Flower>>))
        /\ calls[c].is_correct = "true"
        /\ calls[c].points_earned = gradeIn.points
        /\ calls[c].result = "true"

\* the stored response of a question, or none
storedResponse(questionId) ==
    IF objHas(mockResponsesStorage, questionId)
    THEN Some(objGet(mockResponsesStorage, questionId)) ELSE None

savesOf(questionId) == {c \in saveCalls : calls[c].question_id = questionId}

\* C26: per-key isolation.  A step in which no save of question q' begins or
\* settles leaves the stored response of q' and its saves in flight as they
\* were; and once every save has settled with success, the stored response of
\* each question is the last answer issued for it.
C26_PerKeyIsolation ==
    [][ /\ \A i \in 1..totalQuestions :
              ( /\ savesOf(mockQuestions[i].id)' = savesOf(mockQuestions[i].id)
                /\ \A c \in savesOf(mockQuestions[i].id) : calls'[c] = calls[c] )
              => /\ storedResponse(mockQuestions[i].id)'
                       = storedResponse(mockQuestions[i].id)
                 /\ pendingSaves(mockQuestions[i].id)'
                       = pendingSaves(mockQuestions[i].id)
        /\ (\A c \in saveCalls' : calls'[c].result = "true")
           => \A c \in saveCalls' :
                 (\A d \in saveCalls' :
                     calls'[d].question_id = calls'[c].question_id => d <= c)
                 => stored(calls[c].question_id, calls[c].response_text)' ]_vars

\* C27: the durable current question index never decreases.  No step lowers
\* the index of the stored session, nor the index the gateway has last
\* acknowledged for the assignment.
C27_DurableIndexMonotonic ==
    [][ /\ storedSession'.current_question_index
              >= storedSession.current_question_index
        /\ ( /\ ackedProgress # None
             /\ ackedProgress' # None
             /\ ackedProgress'[1].route = ackedProgress[1].route )
           => ackedProgress'[1].index >= ackedProgress[1].index ]_vars

\* held, the answers of the client, has for the question the answer that the
\* text sent states
heldAs(held, questionId, responseText) ==
    /\ objHas(held, questionId)
    /\ \/ objGet(held, questionId) = JsString(responseText)
       \/ /\ isArray(objGet(held, questionId))
          /\ JSONstringify(textsOf(objGet(held, questionId).value)) = responseText

\* C28: the optimistic cache keeps the input.  The step in which the learner
\* answers a question, the session loaded, sets the client-held answer of the
\* question to the new value and sends that value, the write pending; the
\* step in which the write fails leaves the answers as they are.
C28_OptimisticCacheKeepsInput ==
    [][ /\ ( /\ Len(calls') = Len(calls) + 1
             /\ calls'[Len(calls')].kind \in {"save", "answer"}
             /\ session # None )
           => /\ calls'[Len(calls')].kind = "save"
              /\ calls'[Len(calls')].pc = "upsert"
              /\ heldAs(answers', calls'[Len(calls')].question_id,
                        calls'[Len(calls')].response_text)
        /\ \A c \in savesInFlight :
              (calls'[c].pc = "done" /\ calls'[c].result = "false")
              => /\ answers' = answers
                 /\ heldAs(answers, calls[c].question_id, calls[c].response_text)
                       => heldAs(answers', calls[c].question_id,
                                 calls[c].response_text) ]_vars

\* C29: at most one write in flight per question key.  For each question
\* there is at most one response write that is pending; no pending write is
\* ever cancelled, so each of them can still take effect.
C29_OneWriteInFlightPerKey ==
    \A i \in 1..totalQuestions :
        Cardinality(pendingSaves(mockQuestions[i].id)) <= 1

\* C30: every operation terminates.  Each save, progress update and submit
\* that was begun is completed in the end, also where the gateway never
\* responds to a call of it; isSubmitting, once true, is false again in the
\* end.
C30_EveryOperationTerminates ==
    /\ \A n \in 1..MaxCalls :
          (Len(calls) >= n) ~> (Len(calls) >= n /\ calls[n].pc = "done")
    /\ isSubmitting ~> ~isSubmitting


\* a write that marks the session completed has been accepted for the call:
\* the update of submitHomeworkAssignment or the one handleSubmit makes after
\* it
completionAccepted(call) ==
    completionWritten(call) \/ ended(call, "finalize", "ok")

\* C31: completion is retried in the background.  Once the submission record
\* of a submit has been written the page is in the submitted state, without
\* waiting for a write that marks the session completed; and a submit that
\* has ended with its submission record written has had a completion write
\* accepted, or the client keeps a write of it under way.
C31_CompletionRetriedInBackground ==
    \A c \in submitCalls :
        /\ (submissionWritten(calls[c]) /\ isLive(calls[c])) => isSubmitted
        /\ (submissionWritten(calls[c]) /\ calls[c].pc = "done")
              => completionAccepted(calls[c])

\* the text begins, after blanks, with a decimal number, signed or not
beginsWithNumber(id) ==
    LET t == trimStart(id)
        u == IF Len(t) > 0 /\ t[1] \in {"-", "+"} THEN Tail(t) ELSE t
    IN Len(u) > 0 /\ IsDigit(u[1])

\* the calls made with an assignment id that does not parse to a number
invalidIdCalls(log) ==
    {c \in 1..Len(log) : ~beginsWithNumber(log[c].route)}

\* C32: an invalid identifier leaves the store untouched.  A call of
\* getOrCreateHomeworkSession, saveHomeworkResponse or
\* submitHomeworkAssignment with an assignment id that does not parse to a
\* number has returned failure in the step that makes it, has made no gateway
\* call then or later, and in that step every stored session, response and
\* submission is what it was.
C32_InvalidIdLeavesStoreUntouched ==
    [][ /\ \A c \in invalidIdCalls(calls') :
              /\ calls'[c].pc = "done"
              /\ calls'[c].log = <<>>
              /\ calls'[c].result \in {"false", "null"}
        /\ ( /\ Len(calls') > Len(calls)
             /\ Len(calls') \in invalidIdCalls(calls') )
           => storeVars' = storeVars
      ]_vars

C32_Witness ==
    \E c \in invalidIdCalls(calls), d \in saveCalls :
        /\ d < c
        /\ ended(calls[d], "upsert", "ok")
        /\ mockResponsesStorage # <<>>
        /\ calls[c].result \in {"false", "null"}

\* the tickbox questions of the assignment
tickboxQuestions ==
    {mockQuestions[i].id : i \in {n \in 1..totalQuestions :
                                     mockQuestions[n].question_type = "tickbox"}}

\* C33: tickbox answers survive a save and resume round trip.  In the step
\* in which a load of the live page ends with the responses read back, the
\* client's answer for each tickbox question that has a saved selection is
\* the list of the option texts of that selection: an array whose JSON text
\* is the text stored.
C33_TickboxRoundTrip ==
    [][ \A c \in loadCalls :
          ( /\ calls[c].pc # "done"
            /\ calls'[c].pc = "done"
            /\ calls'[c].result = "true"
            /\ isLive(calls[c]) )
          => \A q \in tickboxQuestions :
                objHas(mockResponsesStorage, q)
                => /\ objHas(answers', q)
                   /\ isArray(objGet(answers', q))
                   /\ JSONstringify(textsOf(objGet(answers', q).value))
                         = objGet(mockResponsesStorage, q) ]_vars

\* C34: the client cursor stays in range.  Whenever the page holds a loaded
\* assignment, currentQuestion is the index of one of its questions: after
\* the load has set it from the session it got and after any handleNext and
\* handlePrevious.
C34_CursorInRange ==
    assignment => (0 <= currentQuestion /\ currentQuestion < totalQuestions)

C34_Witness ==
    /\ assignment
    /\ \E c \in loadCalls :
          /\ isLive(calls[c])
          /\ calls[c].sessionData # None
          /\ \E d, e \in progressCalls :
                /\ c < d /\ d < e
                /\ calls[d].index = totalQuestions - 1
                /\ calls[e].index = totalQuestions - 2
                /\ currentQuestion = calls[e].index

\* the updates of homework_sessions among the gateway calls
sessionUpdates == {"touch", "update", "complete", "finalize"}

\* the gateway acknowledges, in the step, the update of homework_sessions the
\* call awaits
updateAccepted(before, after) ==
    /\ before.pc \in sessionUpdates
    /\ before.pc # after.pc
    /\ ended(after, before.pc, "ok")

\* C35: completion is irreversible.  No update of a session that the gateway
\* accepts, made by updateHomeworkSessionProgress, getOrCreateHomeworkSession
\* or submitHomeworkAssignment, sets is_completed to false, and none leaves
\* the stored flag cleared; the update of updateHomeworkSessionProgress
\* called without isCompleted carries neither is_completed nor completed_at.
\* saveHomeworkResponse makes no update of a session.
C35_CompletionIrreversible ==
    [][ \A c \in 1..Len(calls) :
          /\ updateAccepted(calls[c], calls'[c])
             => LET data == sessionWrite(calls[c], calls[c].pc) IN
                /\ "is_completed" \in DOMAIN data => data.is_completed
                /\ (calls[c].pc = "update" /\ ~calls[c].isCompleted)
                      => DOMAIN data \cap {"is_completed", "completed_at"} = {}
                /\ storedSession.is_completed => storedSession'.is_completed
          /\ calls[c].kind = "save" => made(calls'[c], "upsert") = DOMAIN calls'[c].log
      ]_vars

C35_Witness ==
    \E c, d, e \in 1..Len(calls) :
        /\ c < d /\ d < e
        /\ ended(calls[c], "complete", "ok")
        /\ calls[d].kind = "progress" /\ ~calls[d].isCompleted
        /\ ended(calls[d], "update", "ok")
        /\ ended(calls[e], "touch", "ok")

\* C36: resumption does not disturb progress.  Where
\* getOrCreateHomeworkSession has found a session, the update it makes
\* carries last_activity and no other field; in the step in which that update
\* ends the stored current question index and completion flag are what they
\* were, and the session the call returns, if the update did not throw,
\* carries the stored index and flag.
C36_ResumptionKeepsProgress ==
    [][ \A c \in 1..Len(calls) :
          (calls[c].pc = "touch" /\ calls'[c].pc = "done")
          => /\ DOMAIN sessionWrite(calls[c], "touch") = {"last_activity"}
             /\ storedSession'.current_question_index
                   = storedSession.current_question_index
             /\ storedSession'.is_completed = storedSession.is_completed
             /\ calls'[c].sessionData # None
                   => /\ calls'[c].sessionData[1].current_question_index
                            = storedSession.current_question_index
                      /\ calls'[c].sessionData[1].is_completed
                            = storedSession.is_completed
      ]_vars

C36_Witness ==
    \E c, d \in 1..Len(calls) :
        /\ d < c
        /\ calls[d].kind = "progress"
        /\ ended(calls[d], "update", "ok")
        /\ calls[c].kind = "session"
        /\ ended(calls[c], "touch", "ok")
        /\ calls[c].pc = "done"
        /\ calls[c].sessionData # None

\* the handlers of the page that write: handleAnswer and
\* handleTickboxAnswer, handleNext and handlePrevious, handleSubmit
writingKinds == {"save", "answer", "progress", "submit"}

C38_TickboxToggle ==
    [][ ( /\ Len(calls') = Len(calls) + 1
          /\ calls'[Len(calls')].kind \in {"save", "answer"}
          /\ hasQuestion
          /\ question.question_type = "tickbox" )
        => LET call == calls'[Len(calls')]
               before == currentAnswersOf(question.id)
           IN /\ call.kind = "save"
              /\ objHas(answers', question.id)
              /\ isArray(objGet(answers', question.id))
              /\ LET held == objGet(answers', question.id).value IN
                 /\ \A m, n \in 1..Len(held) : held[m] = held[n] => m = n
                 /\ \A n \in 1..Len(held) : held[n] \in {JsString(o) : o \in TickOptions}
                 /\ call.response_text = JSONstringify(textsOf(held))
                 /\ isArray(before)
                    => \E o \in TickOptions :
                          /\ IF \E n \in 1..Len(before.value) : before.value[n] = JsString(o)
                             THEN held = SelectSeq(before.value,
                                               LAMBDA answer : answer # JsString(o))
                             ELSE held = Append(before.value, JsString(o))
                          /\ range(newAnswersOf(JsArray(held), o)) = range(before.value)
      ]_vars

\* what handling an image load error does to the fallback level, the src
\* being the same before and after: the level goes up, by one of the moves
\* 0 to 1, 0 to 2, 1 to 2, 2 to 3, the text fallback is shown after the
\* third error at the latest, and the onError prop is called by the move to
\* level 3 and by no other step
cascadeStep(before, after) ==
    /\ after.errors = before.errors + 1
       => /\ after.src = before.src
          /\ <<before.fallbackLevel, after.fallbackLevel>>
                \in {<<0, 1>>, <<0, 2>>, <<1, 2>>, <<2, 3>>}
          /\ after.errors <= 3
          /\ after.errors = 3 => textFallback(after)
          /\ after.onErrorCalled <=> after.fallbackLevel = 3
    /\ after.src = before.src => after.fallbackLevel >= before.fallbackLevel
    /\ after.onErrorCalled
       => after.errors = before.errors + 1 /\ before.fallbackLevel = 2

\* C39, as stated: the fallback cascade, and a change of src sets the
\* fallback level to 0.
C39_CascadeResetToZero ==
    [][ /\ cascadeStep(image, image')
        /\ image'.src # image.src => image'.fallbackLevel = 0 ]_vars

\* C39, amended: the fallback cascade.  For a fixed src every image load
\* error moves the fallback level up (0 to 1 or 2, 1 to 2, 2 to 3) and no
\* step moves it down, so that the text fallback is shown after three errors
\* at the latest; onError is called by the move to level 3 only; and a change
\* of src starts the cascade anew: the errors counted begin at 0 and the
\* level is 0, or 2 where the image is visible and the new src is a text that
\* validateAndCleanUrl rejects.
C39_ImageFallbackCascade ==
    [][ /\ cascadeStep(image, image')
        /\ image'.src # image.src
           => /\ image'.errors = 0
              /\ ~textFallback(image')
              /\ image'.fallbackLevel \in {0, 2}
              /\ image'.fallbackLevel = 2
                 <=> /\ image'.isVisible
                     /\ truthy(image'.src)
                     /\ image'.currentSrc = JsString(PLACEHOLDER_IMAGE_DATA_URI) ]_vars

C39_Witness ==
    /\ image.event = "error"
    /\ image.errors = 3
    /\ image.fallbackLevel = 3
    /\ image.onErrorCalled

====
